---------------------------- MODULE Spec2Model ----------------------------
(***************************************************************************)
(* A model of the decal playback pipeline: the AudioOutput ring buffer and *)
(* its device callback (src/src/output/mod.rs), the Decoder                *)
(* (src/src/decoder/mod.rs), the ResampledDecoder                          *)
(* (src/src/decoder/resampler.rs) and the AudioManager                     *)
(* (src/src/audio_manager.rs).                                             *)
(*                                                                         *)
(* Samples are integers; the silence value MID / EQUILIBRIUM is 0.  Sample *)
(* rates are small numbers of frames per second so that the ring-buffer    *)
(* capacity formula of AudioOutput::new gives capacities of a few frames.  *)
(***************************************************************************)
EXTENDS Integers, Sequences, FiniteSets, TLC

(***************************************************************************)
(* Bounds of the model.                                                    *)
(***************************************************************************)
\* total number of samples the output test producer may offer
MaxSamples == 5
\* longest slice handed to write / write_blocking by the output producer
MaxWrite == 3
\* longest device buffer handed to the data callback
MaxData == 3

(***************************************************************************)
(* Program constants.                                                      *)
(***************************************************************************)
\* T::MID, the silence value of a signed or float sample type
MID == 0
\* T::EQUILIBRIUM, the filler of the data callback
EQUILIBRIUM == 0
\* AudioOutput::new: buffer_duration = Duration::from_millis(200)
BUFFER_MS == 200
\* OutputSettings::default: buffer_duration = Duration::from_millis(250)
DEFAULT_BUFFER_DURATION == 250
\* the content of the device buffer before the callback writes it
Stale == 99

(***************************************************************************)
(* Helpers.                                                                *)
(***************************************************************************)
Min(a, b) == IF a <= b THEN a ELSE b

Take(s, n) == SubSeq(s, 1, Min(n, Len(s)))

Drop(s, n) == SubSeq(s, Min(n, Len(s)) + 1, Len(s))

Fill(n, v) == [i \in 1..n |-> v]

IsPrefix(p, s) == Len(p) <= Len(s) /\ SubSeq(s, 1, Len(p)) = p

\* the element of a set of one element: {F(x) : x \in {e}} computes e once
Only(S) == CHOOSE x \in S : TRUE

VARIABLES
    \* AudioOutput: ring_buf contents (oldest first), its capacity, stream
    output,
    \* write_blocking in progress: pc, samples (the remaining slice), the
    \* slice it was called with and the number of samples accepted before it
    wb,
    \* history: every sample the ring-buffer producer accepted, in order
    accepted,
    \* history: every non-padding sample handed to the device, in order
    played,
    \* the last data callback: its buffer, the count read, the count available
    cb,
    \* history of the device: the count of live streams, the last start, stop
    \* or stream error, and the counts of stream errors delivered and of the
    \* user callbacks the error callback invoked
    dev,
    \* the output test producer: next fresh sample value
    next_id,
    \* the Decoder, with its demuxer (source, reader)
    decoder,
    \* Decoder::new in progress: pc, the initialize option, the volume saved
    \* by initialize, samples_skipped, the error it failed with
    dnew,
    \* history: the last Decoder call, the Decoder before it and its result
    dlast,
    \* the ResampledDecoder
    resampled,
    \* history of the ResampledDecoder's consumer: the samples it read from
    \* current(), the samples copied into the resampler input, the count of
    \* initialize calls and of paused decodes, the last call and its result
    rhist,
    \* the AudioManager: its fields beside output and resampled, the host it
    \* was built over, the sources its user plays, the step it is at
    mgr,
    \* history of the AudioManager: the steps of the reset in progress, the
    \* blocks the current source produced and those pushed to the output, the
    \* count of Finished results and of the flushes of write_all
    mhist,
    \* the OutputBuilder under test: its host and shared current_device, the
    \* last call made on it with its arguments, and what the call returned
    bld

outVars == <<output, wb, accepted, played, cb, dev, next_id>>

decVars == <<decoder, dnew, dlast>>

resVars == <<resampled, rhist>>

mgrVars == <<mgr, mhist, bld>>

nonOutVars == <<decVars, resVars, mgrVars>>

nonDecVars == <<outVars, resVars, mgrVars>>

nonResVars == <<outVars, decVars, mgrVars>>

vars == <<outVars, decVars, resVars, mgrVars>>

(***************************************************************************)
(* rb::SpscRb as AudioOutput uses it.                                      *)
(***************************************************************************)
\* AudioOutput::new: the ring-buffer capacity in samples
RingCapacity(sample_rate, channels) ==
    ((BUFFER_MS * sample_rate) \div 1000) * channels

\* AudioOutput::new
NewOutput(device, config) ==
    [ring_buf |-> <<>>,
     cap |-> RingCapacity(config.sample_rate, config.channels),
     stream |-> FALSE,
     device |-> device,
     config |-> config]

\* AudioOutput::buffer_size
buffer_size(o) == Len(o.ring_buf)

\* AudioOutput::buffer_capacity
buffer_capacity(o) == o.cap

\* AudioOutput::buffer_space_available
buffer_space_available(o) == o.cap - Len(o.ring_buf)

\* a write that takes the whole slice whatever space is free
RbWriteCountOverfull(o, samples) == Len(samples)

\* rb Producer::write through AudioOutput::write: the count written, or Full
RbWriteCount(o, samples) ==
    IF Len(samples) = 0 THEN 0
    ELSE Min(Len(samples), buffer_space_available(o))

RbWriteFull(o, samples) ==
    Len(samples) > 0 /\ buffer_space_available(o) = 0

RbWritten(o, samples) ==
    [o EXCEPT !.ring_buf = @ \o Take(samples, RbWriteCount(o, samples))]

\* rb Consumer::read(data).unwrap_or(0): the count read into data
RbReadCount(o, n) ==
    IF n = 0 \/ Len(o.ring_buf) = 0 THEN 0 ELSE Min(n, Len(o.ring_buf))

\* the slice advance of write_blocking: samples = &samples[written..]
AdvanceSliceStuck(samples, written) == samples

AdvanceSlice(samples, written) == Drop(samples, written)

\* the data callback's mute of the unread remainder
MuteRemainingOffByOne(data, written) ==
    [i \in 1..Len(data) |-> IF i > written + 1 THEN EQUILIBRIUM ELSE data[i]]

MuteRemaining(data, written) ==
    [i \in 1..Len(data) |-> IF i > written THEN EQUILIBRIUM ELSE data[i]]

(***************************************************************************)
(* AudioOutput operations.                                                 *)
(***************************************************************************)
WbIdle == [pc |-> "idle", samples |-> <<>>, slice |-> <<>>, base |-> 0]

\* no stream was opened and no stream error delivered yet
NoDevice ==
    [live |-> 0, last |-> "none", err |-> "none", stream_errors |-> 0,
     on_configuration_changed |-> 0, on_error |-> 0]

\* a start that opens a stream whether or not one is running
AudioOutputStartAlways(o, dv) ==
    [o |-> [o EXCEPT !.stream = TRUE],
     dev |-> [dv EXCEPT !.live = @ + 1,
                        !.last = IF o.stream THEN "start_running" ELSE "start"]]

\* AudioOutput::start: [o, dev]; create_stream opens a stream only when
\* self.stream is None
AudioOutputStart(o, dv) ==
    IF o.stream THEN [o |-> o, dev |-> [dv EXCEPT !.last = "start_running"]]
    ELSE [o |-> [o EXCEPT !.stream = TRUE],
          dev |-> [dv EXCEPT !.live = @ + 1, !.last = "start"]]

\* AudioOutput::stop: [o, dev]
AudioOutputStop(o, dv) ==
    [o |-> [o EXCEPT !.stream = FALSE],
     dev |-> [dv EXCEPT !.live = IF o.stream THEN @ - 1 ELSE @,
                        !.last = "stop"]]

\* AudioOutput::start
Start ==
    /\ wb.pc = "idle"
    /\ \E r \in {AudioOutputStart(output, dev)} :
           output' = r.o /\ dev' = r.dev
    /\ UNCHANGED <<wb, accepted, played, cb, next_id, nonOutVars>>

\* AudioOutput::stop
Stop ==
    /\ wb.pc = "idle"
    /\ \E r \in {AudioOutputStop(output, dev)} :
           output' = r.o /\ dev' = r.dev
    /\ UNCHANGED <<wb, accepted, played, cb, next_id, nonOutVars>>

FreshSlice(n) == [i \in 1..n |-> next_id + i - 1]

\* AudioOutput::write: non-blocking, writes what fits
Write ==
    /\ wb.pc = "idle"
    /\ \E n \in 0..MaxWrite :
        /\ next_id + n - 1 <= MaxSamples
        /\ LET samples == FreshSlice(n)
               cnt == RbWriteCount(output, samples)
           IN  /\ output' = RbWritten(output, samples)
               /\ accepted' = accepted \o Take(samples, cnt)
               \* samples the ring buffer did not take are dropped by the caller
               /\ next_id' = next_id + n
    /\ UNCHANGED <<wb, played, cb, dev, nonOutVars>>

\* AudioOutput::write_blocking is entered with a slice
WriteBlockingCall ==
    /\ wb.pc = "idle"
    /\ \E n \in 0..MaxWrite :
        /\ next_id + n - 1 <= MaxSamples
        /\ wb' = [pc |-> "loop", samples |-> FreshSlice(n),
                  slice |-> FreshSlice(n), base |-> Len(accepted)]
        /\ next_id' = next_id + n
    /\ UNCHANGED <<output, accepted, played, cb, dev, nonOutVars>>

\* one write_blocking_timeout that does not time out: Ok(None) on an empty
\* slice, else Ok(Some(written)) and the slice advances
WriteBlockingStep ==
    /\ wb.pc = "loop"
    /\ IF Len(wb.samples) = 0
       THEN /\ wb' = [wb EXCEPT !.pc = "ok"]
            /\ UNCHANGED <<output, accepted>>
       ELSE /\ ~RbWriteFull(output, wb.samples)
            /\ LET written == RbWriteCount(output, wb.samples)
               IN  /\ output' = RbWritten(output, wb.samples)
                   /\ accepted' = accepted \o Take(wb.samples, written)
                   /\ wb' = [wb EXCEPT !.samples = AdvanceSlice(@, written)]
    /\ UNCHANGED <<played, cb, dev, next_id, nonOutVars>>

\* write_blocking_timeout finds the ring buffer full and no slot is freed
\* within settings.buffer_duration: Err, OutputStalled
WriteBlockingTimeout ==
    /\ wb.pc = "loop"
    /\ RbWriteFull(output, wb.samples)
    /\ wb' = [wb EXCEPT !.pc = "stalled"]
    /\ UNCHANGED <<output, accepted, played, cb, dev, next_id, nonOutVars>>

\* write_blocking returns to the output test producer
WriteBlockingReturn ==
    /\ wb.pc \in {"ok", "stalled"}
    /\ wb' = [WbIdle EXCEPT !.slice = wb.slice, !.base = wb.base]
    /\ UNCHANGED <<output, accepted, played, cb, dev, next_id, nonOutVars>>

\* the device invokes the data callback of create_stream with a buffer
DataCallback ==
    /\ output.stream
    /\ \E n \in 1..MaxData :
        LET written == RbReadCount(output, n)
            read == Take(output.ring_buf, written)
            data == [i \in 1..n |-> IF i <= written THEN read[i] ELSE Stale]
        IN  /\ output' = [output EXCEPT !.ring_buf = Drop(@, written)]
            /\ played' = played \o read
            /\ cb' = [data |-> IF n > written
                               THEN MuteRemaining(data, written) ELSE data,
                      written |-> written,
                      avail |-> Len(output.ring_buf)]
    /\ UNCHANGED <<wb, accepted, dev, next_id, nonOutVars>>

\* most stream errors the device reports
MaxStreamErrors == 3

\* cpal StreamError
StreamErrors ==
    {"DeviceNotAvailable", "StreamInvalidated", "BackendSpecific",
     "InputOverflow", "BufferUnderrun", "InvalidConfiguration"}

\* an error callback that asks for a reset on a buffer underrun too
ErrorCallbackResetOnUnderrun(err) ==
    IF err \in {"DeviceNotAvailable", "StreamInvalidated", "BufferUnderrun"}
    THEN "on_configuration_changed"
    ELSE IF err = "BackendSpecific" THEN "on_error"
    ELSE "log"

\* the error callback of create_stream: the user callback it invokes, log
\* when it only logs
ErrorCallback(err) ==
    IF err \in {"DeviceNotAvailable", "StreamInvalidated"}
    THEN "on_configuration_changed"
    ELSE IF err = "BackendSpecific" THEN "on_error"
    ELSE "log"

\* the device invokes the error callback of create_stream with an error
StreamErrorCallback ==
    /\ output.stream
    /\ dev.stream_errors < MaxStreamErrors
    /\ \E err \in StreamErrors :
        LET invoked == ErrorCallback(err)
        IN  dev' = [dev EXCEPT
                !.last = "error", !.err = err, !.stream_errors = @ + 1,
                !.on_configuration_changed =
                    IF invoked = "on_configuration_changed" THEN @ + 1 ELSE @,
                !.on_error = IF invoked = "on_error" THEN @ + 1 ELSE @]
    /\ UNCHANGED <<output, wb, accepted, played, cb, next_id, nonOutVars>>

(***************************************************************************)
(* The demuxer and codec behind a Decoder.  A source is its sample rate,   *)
(* its channel count and its packets; a packet has a track id, a timestamp *)
(* in frames, the interleaved samples the codec decodes from it, the       *)
(* result of reading it from the demuxer and the result of decoding it.    *)
(***************************************************************************)
\* most packets of the decoder's track in a source
MaxPackets == 3
\* most packets of a source that is resampled
MaxResampledPackets == 2
\* T::Float volumes are multiples of 1 / VolumeDen
VolumeDen == 2
\* T::IDENTITY, the volume 1.0
IDENTITY == VolumeDen
\* the id of the default track
TrackId == 0
\* saturation of the samples_skipped log counter
MaxSkipped == 24

\* frames per packet
PacketFrames == {1, 2}

None == <<>>

Some(x) == <<x>>

\* the g-th sample of a source (counted from 1): silent up to lead
SourceSample(g, lead, base) == IF g <= lead THEN MID ELSE base + 2 * g

RECURSIVE SumSeq(_)
SumSeq(s) == IF Len(s) = 0 THEN 0 ELSE s[1] + SumSeq(Drop(s, 1))

\* the packets of a source whose i-th packet holds frames[i] frames
MakePackets(frames, channels, lead, base) ==
    [i \in 1..Len(frames) |->
        LET before == SumSeq(Take(frames, i - 1))
        IN  [track |-> TrackId,
             ts |-> before,
             read |-> "ok",
             decode |-> "ok",
             samples |-> [k \in 1..(frames[i] * channels) |->
                            SourceSample(before * channels + k, lead, base)]]]

MakeSource(frames, channels, rate, lead, base) ==
    [rate |-> rate, channels |-> channels, seekable |-> TRUE,
     packets |-> MakePackets(frames, channels, lead, base)]

FrameSeqs(n) == UNION {[1..k -> PacketFrames] : k \in 1..n}

(***************************************************************************)
(* Decoder (src/src/decoder/mod.rs).                                       *)
(***************************************************************************)
\* dasp mul_amp on an integer sample: scale and truncate towards zero
MulAmp(sample, amp) ==
    IF sample >= 0 THEN (sample * amp) \div VolumeDen
    ELSE 0 - ((0 - sample) * amp) \div VolumeDen

\* the Decoder value built by Decoder::new before initialize
NewDecoder(source, volume, output_channels) ==
    [source |-> source,
     reader |-> 1,
     buf |-> <<>>,
     buf_len |-> 0,
     volume |-> volume,
     track_id |-> TrackId,
     input_channels |-> 0,
     output_channels |-> output_channels,
     timestamp |-> 0,
     paused |-> FALSE,
     sample_rate |-> 0,
     seek_required_ts |-> None,
     time_base |-> 1]

\* Decoder::current
DecoderCurrent(d) == SubSeq(d.buf, 1, d.buf_len)

\* Decoder::adjust_buffer_size
AdjustBufferSize(d, samples_length) ==
    [d EXCEPT !.buf = IF samples_length > Len(@)
                      THEN Fill(samples_length, MID) ELSE @,
              !.buf_len = samples_length]

\* write the mixed samples over the front of buf
StoreMixed(d, mixed) ==
    LET d1 == AdjustBufferSize(d, Len(mixed))
    IN  [d1 EXCEPT !.buf = [i \in 1..Len(@) |->
                               IF i <= Len(mixed) THEN mixed[i] ELSE @[i]]]

\* the width in bits of the signed integer sample type T, scaled down
SampleBits == 10

\* T::MIN and T::MAX of the integer sample type
SampleMin == 0 - 2 ^ (SampleBits - 1)

SampleMax == 2 ^ (SampleBits - 1) - 1

\* a + b in T where the build wraps on overflow (no overflow checks)
WrappingAdd(a, b) == ((a + b - SampleMin) % (2 ^ SampleBits)) + SampleMin

\* a + b in T: the sum when it fits, else a panic in a build with overflow
\* checks and the wrapped sum in a build without
AddSamples(a, b) ==
    IF a + b >= SampleMin /\ a + b <= SampleMax
    THEN {[res |-> "ok", sample |-> a + b]}
    ELSE {[res |-> "panic", sample |-> MID],
          [res |-> "ok", sample |-> WrappingAdd(a, b)]}

\* the channel mix of process_output, in a build that wraps on overflow
MixChannels(samples, input_channels, output_channels, volume) ==
    IF input_channels = 1 /\ output_channels = 2
    THEN [i \in 1..(2 * Len(samples)) |-> MulAmp(samples[(i + 1) \div 2], volume)]
    ELSE IF input_channels = 2 /\ output_channels = 1
    THEN [i \in 1..(Len(samples) \div 2) |->
            MulAmp(MulAmp(WrappingAdd(samples[2 * i - 1], samples[2 * i]),
                          VolumeDen \div 2),
                   volume)]
    ELSE [i \in 1..Len(samples) |-> MulAmp(samples[i], volume)]

\* process_output without the test of the channel count
ProcessOutputAnyChannels(d, packet) ==
    IF packet.decode = "decode_error" THEN [d |-> d, res |-> "recoverable"]
    ELSE IF packet.decode = "reset_required"
    THEN [d |-> d, res |-> "reset_required"]
    ELSE IF packet.decode # "ok" THEN [d |-> d, res |-> "decode_error"]
    ELSE
      LET d1 == IF d.sample_rate = 0
                THEN [d EXCEPT !.sample_rate = d.source.rate,
                               !.input_channels = d.source.channels]
                ELSE d
      IN  [d |-> StoreMixed(d1, MixChannels(packet.samples,
                                 d1.input_channels, d1.output_channels,
                                 d1.volume)),
           res |-> "ok"]

\* Decoder::process_output: [d, res], res one of ok, recoverable,
\* reset_required, decode_error, unsupported_format
ProcessOutput(d, packet) ==
    IF packet.decode = "decode_error" THEN [d |-> d, res |-> "recoverable"]
    ELSE IF packet.decode = "reset_required"
    THEN [d |-> d, res |-> "reset_required"]
    ELSE IF packet.decode # "ok" THEN [d |-> d, res |-> "decode_error"]
    ELSE
      LET d1 == IF d.sample_rate = 0
                THEN [d EXCEPT !.sample_rate = d.source.rate,
                               !.input_channels = d.source.channels]
                ELSE d
      IN  IF d.sample_rate = 0 /\ d.source.channels > 2
          THEN [d |-> d1, res |-> "unsupported_format"]
          ELSE [d |-> StoreMixed(d1, MixChannels(packet.samples,
                                     d1.input_channels, d1.output_channels,
                                     d1.volume)),
                res |-> "ok"]

\* Decoder::process_output in every build: a sum of the stereo-to-mono mix
\* that leaves the range of T panics where overflow is checked
ProcessOutputs(d, packet) ==
    {ProcessOutput(d, packet)}
        \cup {[d |-> d, res |-> "panic"] :
                i \in {i \in 1..(Len(packet.samples) \div 2) :
                          /\ packet.decode = "ok"
                          /\ d.source.channels = 2
                          /\ d.output_channels = 1
                          /\ \E sum \in AddSamples(packet.samples[2 * i - 1],
                                                   packet.samples[2 * i]) :
                                 sum.res = "panic"}}

\* the packet loop without the comparison with seek_required_ts
ReadPacketNoSkip(d) ==
    IF d.reader > Len(d.source.packets)
    THEN [d |-> d, res |-> "end_of_stream", packet |-> None]
    ELSE [d |-> [d EXCEPT !.reader = @ + 1, !.seek_required_ts = None],
          res |-> "packet", packet |-> Some(d.source.packets[d.reader])]

\* the packet loop with a demuxer that starts over after its end of stream
ReadPacketRewinding(d) ==
    IF d.reader > Len(d.source.packets)
    THEN [d |-> [d EXCEPT !.reader = 1], res |-> "end_of_stream",
          packet |-> None]
    ELSE [d |-> [d EXCEPT !.reader = @ + 1, !.seek_required_ts = None],
          res |-> "packet", packet |-> Some(d.source.packets[d.reader])]

\* the packet loop of Decoder::next: skip packets of other tracks and, after
\* a seek, packets before seek_required_ts; [d, res, packet], res one of
\* packet, end_of_stream, reset_required, decode_error
RECURSIVE ReadPacket(_)
ReadPacket(d) ==
    IF d.reader > Len(d.source.packets)
    THEN [d |-> d, res |-> "end_of_stream", packet |-> None]
    ELSE
      LET packet == d.source.packets[d.reader]
          d1 == [d EXCEPT !.reader = @ + 1]
      IN  IF packet.read # "ok"
          THEN [d |-> d1,
                res |-> IF packet.read = "reset_required"
                        THEN "reset_required" ELSE "decode_error",
                packet |-> None]
          ELSE IF packet.track # d.track_id THEN ReadPacket(d1)
          ELSE IF d.seek_required_ts # None /\ packet.ts < d.seek_required_ts[1]
          THEN ReadPacket(d1)
          ELSE [d |-> [d1 EXCEPT !.seek_required_ts = None],
                res |-> "packet", packet |-> Some(packet)]

\* the unpaused branch with a process_output error of any kind returned
DecodeLoopNoRetry(d) ==
    Only({IF r.res = "end_of_stream" THEN [d |-> r.d, res |-> "none"]
          ELSE IF r.res # "packet" THEN [d |-> r.d, res |-> r.res]
          ELSE Only({IF o.res = "ok" THEN [d |-> o.d, res |-> "some"]
                     ELSE [d |-> o.d, res |-> o.res] :
                       o \in {ProcessOutput(
                                 [r.d EXCEPT !.timestamp = r.packet[1].ts],
                                 r.packet[1])}}) :
            r \in {ReadPacket(d)}})

\* the unpaused branch of Decoder::next: [d, res], res one of some, none,
\* reset_required, decode_error, unsupported_format
RECURSIVE DecodeLoop(_)
DecodeLoop(d) ==
    Only({IF r.res = "end_of_stream" THEN [d |-> r.d, res |-> "none"]
          ELSE IF r.res # "packet" THEN [d |-> r.d, res |-> r.res]
          ELSE Only({IF o.res = "ok" THEN [d |-> o.d, res |-> "some"]
                     ELSE IF o.res = "recoverable" THEN DecodeLoop(o.d)
                     ELSE [d |-> o.d, res |-> o.res] :
                       o \in {ProcessOutput(
                                 [r.d EXCEPT !.timestamp = r.packet[1].ts],
                                 r.packet[1])}}) :
            r \in {ReadPacket(d)}})

\* the paused branch of Decoder::next
PausedNextAdvancing(d) == DecodeLoop(d)

PausedNext(d) ==
    [d |-> [d EXCEPT !.buf = Fill(Len(@), MID)], res |-> "some"]

\* Decoder::pause
PauseMuting(d) == [d EXCEPT !.paused = TRUE, !.buf = Fill(Len(@), MID)]

Pause(d) == [d EXCEPT !.paused = TRUE]

\* Decoder::next
DecoderNext(d) == IF d.paused THEN PausedNext(d) ELSE DecodeLoop(d)

\* slice::position(|s| *s != T::MID) over the whole of buf, counted from 0;
\* Len(buf) when there is none
FirstNonSilent(buf) ==
    IF \E i \in 1..Len(buf) : buf[i] # MID
    THEN (CHOOSE i \in 1..Len(buf) :
            buf[i] # MID /\ \A j \in 1..(i - 1) : buf[j] = MID) - 1
    ELSE Len(buf)

\* the stereo pairing of initialize: back up from an odd index
PairIndexUnpaired(index, output_channels) == index

PairIndex(index, output_channels) ==
    IF output_channels = 2 /\ index % 2 = 1 THEN index - 1 ELSE index

\* the time base initialize reads from the first decoded packet
WithTimeBase(d) ==
    IF d.time_base = 1 THEN [d EXCEPT !.time_base = d.sample_rate] ELSE d

\* the trimming of one pass of Decoder::initialize over the block in d.buf
InitializeTrim(d1, opt, volume, skipped) ==
    IF opt = "PreserveSilence"
    THEN [d |-> d1, pc |-> "ready", err |-> "", skipped |-> skipped]
    ELSE IF FirstNonSilent(d1.buf) < Len(d1.buf)
    THEN
      LET index == PairIndex(FirstNonSilent(d1.buf), d1.output_channels)
          buf_no_silence ==
              [k \in 1..(Len(d1.buf) - index) |->
                  MulAmp(d1.buf[index + k], volume)]
      IN  \* buf_len -= index underflows, or copy_from_slice is handed
          \* slices of different lengths: the thread panics
          IF index > d1.buf_len \/ Len(buf_no_silence) # d1.buf_len - index
          THEN [d |-> d1, pc |-> "panicked", err |-> "",
                skipped |-> skipped]
          ELSE [d |-> [d1 EXCEPT
                         !.buf_len = @ - index,
                         !.buf = [i \in 1..Len(@) |->
                                    IF i <= d1.buf_len - index
                                    THEN buf_no_silence[i] ELSE @[i]],
                         !.volume = volume],
                pc |-> "ready", err |-> "",
                skipped |-> Min(MaxSkipped, skipped + index)]
    ELSE [d |-> d1, pc |-> "init", err |-> "",
          skipped |-> Min(MaxSkipped, skipped + Len(d1.buf))]

\* one pass of the loop of Decoder::initialize: [d, pc, err, skipped], pc
\* ready when the loop ends, init when it goes round again; volume is the
\* volume saved on entry
InitializePass(d, opt, volume, skipped) ==
    Only({IF r.res \notin {"some", "none"}
          THEN [d |-> r.d, pc |-> "failed", err |-> r.res, skipped |-> skipped]
          ELSE InitializeTrim(WithTimeBase(r.d), opt, volume, skipped) :
            r \in {DecoderNext(d)}})

\* TimeBase::calc_time and current_position: milliseconds of a timestamp
PositionMillis(d) == (d.timestamp * 1000) \div d.time_base

\* the demuxer's timestamp of a time in milliseconds
RequiredTs(d, millis) == (millis * d.source.rate) \div 1000

\* the last timestamp of the track
LastTs(d) ==
    LET own == {i \in 1..Len(d.source.packets) :
                    d.source.packets[i].track = d.track_id}
    IN  IF own = {} THEN 0
        ELSE d.source.packets[CHOOSE i \in own : \A j \in own : j <= i].ts

\* the packet positions a coarse demuxer seek to required_ts may land on:
\* the start, or any packet of the track not after required_ts
SeekLandings(d, required_ts) ==
    {1} \cup {i \in 1..Len(d.source.packets) :
                /\ d.source.packets[i].track = d.track_id
                /\ d.source.packets[i].ts <= required_ts}


(***************************************************************************)
(* Decoder operations as a caller drives them.                             *)
(***************************************************************************)
\* what a call record keeps of the Decoder it was made on
Before(d) ==
    [reader |-> d.reader, seek_required_ts |-> d.seek_required_ts,
     timestamp |-> d.timestamp, buf_len |-> d.buf_len,
     sample_rate |-> d.sample_rate, paused |-> d.paused,
     current |-> DecoderCurrent(d)]

\* no Decoder call yet
NoCall ==
    [op |-> "none", res |-> "", pre |-> <<>>, ended |-> FALSE,
     settled |-> FALSE, was_ended |-> FALSE, was_settled |-> FALSE,
     seek |-> <<>>]

\* the record of a call; seek is filled in for a seek().  ended says an unpaused next() has returned Ok(None)
\* and no seek() has returned Ok since, settled that no seek() was called
\* since; was_ended and was_settled are their values before the call
Call(op, res) ==
    LET none == op = "next" /\ ~decoder.paused /\ res = "none"
    IN  [op |-> op, res |-> res, pre |-> Before(decoder),
         ended |-> none \/ (dlast.ended /\ ~(op = "seek" /\ res = "ok")),
         settled |-> none \/ (dlast.settled /\ op # "seek"),
         was_ended |-> dlast.ended, was_settled |-> dlast.settled,
         seek |-> <<>>]

\* Decoder::new with a start position: the seek whose failure is ignored,
\* then initialize(PreserveSilence); without one initialize(TrimSilence)
DnewIdle == [pc |-> "none", opt |-> "TrimSilence", volume |-> IDENTITY,
             samples_skipped |-> 0, err |-> ""]

\* Decoder::reader_seek: the demuxer takes a seek of a seekable source to a
\* timestamp of the track and lands on one of SeekLandings, or rejects it
\* with an error, which here carries the time asked for; [d, res,
\* required_ts, err]
ReaderSeek(d, millis) ==
    LET required == RequiredTs(d, millis)
    IN  IF d.source.seekable /\ required <= LastTs(d)
        THEN {[d |-> [d EXCEPT !.reader = land], res |-> "ok",
               required_ts |-> required, err |-> None] :
                 land \in SeekLandings(d, required)}
        ELSE {[d |-> d, res |-> "error", required_ts |-> 0,
               err |-> Some(millis)]}

\* a seek whose fallback re-seek makes the whole seek a success
SeekOutcomesFallbackOk(d, millis) ==
    LET position == PositionMillis(d)
    IN  UNION {
          IF first.res = "ok"
          THEN {[d |-> [first.d EXCEPT
                          !.seek_required_ts = Some(first.required_ts)],
                 res |-> "ok", required_ts |-> first.required_ts,
                 err |-> None, reader_seeks |-> 1, codec_resets |-> 1]}
          ELSE {[d |-> [second.d EXCEPT
                          !.seek_required_ts = Some(second.required_ts)],
                 res |-> "ok", required_ts |-> second.required_ts,
                 err |-> None, reader_seeks |-> 2, codec_resets |-> 1] :
                   second \in ReaderSeek(first.d, position)} :
            first \in ReaderSeek(d, millis)}

\* Decoder::seek: the decoders a seek to millis can leave, each with the
\* result the caller sees (ok, seek_error for the original error after a
\* fallback that succeeded, fallback_error), the error returned, and the
\* counts of reader_seek calls and of codec resets
SeekOutcomes(d, millis) ==
    LET position == PositionMillis(d)
        seek_result == UNION {
          IF first.res = "ok"
          THEN {[d |-> [first.d EXCEPT
                          !.seek_required_ts = Some(first.required_ts)],
                 res |-> "ok", required_ts |-> first.required_ts,
                 err |-> None, reader_seeks |-> 1, codec_resets |-> 0]}
          ELSE {IF second.res = "ok"
                THEN [d |-> [second.d EXCEPT
                               !.seek_required_ts = Some(second.required_ts)],
                      res |-> "seek_error",
                      required_ts |-> second.required_ts,
                      err |-> first.err, reader_seeks |-> 2,
                      codec_resets |-> 0]
                ELSE [d |-> second.d, res |-> "fallback_error",
                      required_ts |-> 0, err |-> second.err,
                      reader_seeks |-> 2, codec_resets |-> 0] :
                  second \in ReaderSeek(first.d, position)} :
            first \in ReaderSeek(d, millis)}
    IN  \* self.decoder.reset() after the match
        {[o EXCEPT !.codec_resets = @ + 1] : o \in seek_result}

\* the times a caller seeks to: the start of each frame up to the end
SeekTimes(d) == {(ts * 1000) \div d.source.rate : ts \in 0..(LastTs(d) + 1)}

\* Decoder::new with a start position: the seek, its error ignored
DecoderNewSeek ==
    /\ dnew.pc = "seek"
    /\ \E millis \in SeekTimes(decoder) :
        \E o \in SeekOutcomes(decoder, millis) : decoder' = o.d
    /\ dnew' = [dnew EXCEPT !.pc = "init"]
    /\ UNCHANGED <<dlast, nonDecVars>>

\* an initialize that decodes with the requested volume while it looks for
\* the silence
ScanVolumeRequested(opt, volume) == volume

\* Decoder::initialize: the volume the blocks are decoded with while the
\* silence is looked for, T::IDENTITY when it is trimmed
ScanVolume(opt, volume) == IF opt = "TrimSilence" THEN IDENTITY ELSE volume

\* the loop of Decoder::initialize, one pass at a time
DecoderInitialize ==
    /\ dnew.pc = "init"
    /\ LET volume == dnew.volume
           d0 == [decoder EXCEPT !.volume = ScanVolume(dnew.opt, @)]
       IN  \E r \in {InitializePass(d0, dnew.opt, volume,
                                    dnew.samples_skipped)} :
             /\ decoder' = r.d
             /\ dnew' = [dnew EXCEPT !.pc = r.pc, !.err = r.err,
                                     !.samples_skipped = r.skipped]
    /\ UNCHANGED <<dlast, nonDecVars>>

\* Decoder::next called by the owner of a constructed Decoder
DecoderCallNext ==
    /\ dnew.pc = "ready"
    /\ \E r \in {DecoderNext(decoder)} :
           /\ decoder' = r.d
           /\ dlast' = Call("next", r.res)
    /\ UNCHANGED <<dnew, nonDecVars>>

\* Decoder::process_output on the next packet of the source
DecoderProcessOutput ==
    /\ dnew.pc = "init"
    /\ decoder.reader <= Len(decoder.source.packets)
    /\ \E r \in ProcessOutputs(decoder,
                                decoder.source.packets[decoder.reader]) :
           /\ decoder' = [r.d EXCEPT !.reader = @ + 1]
           /\ dlast' = Call("process_output", r.res)
    /\ UNCHANGED <<dnew, nonDecVars>>

\* Decoder::pause
DecoderPause ==
    /\ dnew.pc = "ready"
    /\ ~decoder.paused
    /\ decoder' = Pause(decoder)
    /\ UNCHANGED <<dnew, dlast, nonDecVars>>

\* Decoder::resume
DecoderResume ==
    /\ dnew.pc = "ready"
    /\ decoder.paused
    /\ decoder' = [decoder EXCEPT !.paused = FALSE]
    /\ UNCHANGED <<dnew, dlast, nonDecVars>>

\* Decoder::seek
DecoderSeek ==
    /\ dnew.pc = "ready"
    /\ \E millis \in SeekTimes(decoder) :
        \E o \in SeekOutcomes(decoder, millis) :
            /\ decoder' = o.d
            /\ dlast' = [Call("seek", o.res) EXCEPT !.seek =
                   [time |-> millis, position |-> PositionMillis(decoder),
                    err |-> o.err, reader_seeks |-> o.reader_seeks,
                    codec_resets |-> o.codec_resets]]
    /\ UNCHANGED <<dnew, nonDecVars>>

(***************************************************************************)
(* ResampledDecoder (src/src/decoder/resampler.rs).  The rubato Fft        *)
(* resampler with FixedSync::Both reads frames_in frames and writes        *)
(* frames_out frames per pass; its arithmetic is abstracted to a           *)
(* zero-order hold, which keeps where each output sample comes from.       *)
(***************************************************************************)
\* ResamplerSettings::chunk_size, scaled down from 1024
ChunkSize == 1
\* most decodes a consumer makes while the decoder is paused
MaxPausedDecodes == 2
\* most initialize calls on one ResampledDecoder
MaxInits == 2
\* most flush calls in a row on one ResampledDecoder
MaxFlushes == 2

RECURSIVE Gcd(_, _)
Gcd(a, b) == IF b = 0 THEN a ELSE Gcd(b, a % b)

CeilDiv(a, b) == (a + b - 1) \div b

\* Fft::new: the frames per pass, input_frames_max and output_frames_max
FftFrames(in_rate, out_rate, chunk_size) ==
    LET g == Gcd(in_rate, out_rate)
        fft_chunks == CeilDiv(chunk_size, in_rate \div g)
    IN  [in |-> fft_chunks * (in_rate \div g),
         out |-> fft_chunks * (out_rate \div g)]

\* Resampler::process_into_buffer over interleaved buffers: the input frames
\* from partial_len on count as silence
Process(in_buf, channels, frames_in, frames_out, partial_len) ==
    [i \in 1..(frames_out * channels) |->
        LET frame == (i - 1) \div channels
            chan == (i - 1) % channels
            from == (frame * frames_in) \div frames_out
        IN  IF from < partial_len THEN in_buf[from * channels + chan + 1]
            ELSE MID]

NoInner ==
    [frame_position |-> 0, channels |-> 0, frames_in |-> 0, frames_out |-> 0,
     in_buf |-> <<>>, position |-> 0, out_buf |-> <<>>]

\* ResampledDecoder::new
NewResampled(out_sample_rate, channels, chunk_size) ==
    [state |-> "Native",
     in_sample_rate |-> out_sample_rate,
     out_sample_rate |-> out_sample_rate,
     channels |-> channels,
     chunk_size |-> chunk_size,
     inner |-> NoInner]

\* ResampledDecoder::initialize_resampler
InitializeResampler(r) ==
    LET n == FftFrames(r.in_sample_rate, r.out_sample_rate, r.chunk_size)
    IN  [r EXCEPT !.state = "Resampled",
                  !.inner = [frame_position |-> 0,
                             channels |-> r.channels,
                             frames_in |-> n.in,
                             frames_out |-> n.out,
                             in_buf |-> Fill(n.in * r.channels, MID),
                             position |-> 0,
                             out_buf |-> Fill(n.out * r.channels, MID)]]

\* ResampledDecoder::initialize
ResampledInitialize(r, decoder_sample_rate) ==
    LET sample_rate_changed == r.in_sample_rate # decoder_sample_rate
        r1 == [r EXCEPT !.in_sample_rate = decoder_sample_rate]
    IN  IF r.state = "Native"
        THEN IF r1.in_sample_rate # r1.out_sample_rate
             THEN InitializeResampler(r1) ELSE r1
        ELSE IF sample_rate_changed THEN InitializeResampler(r1)
             ELSE [r1 EXCEPT !.inner.frame_position = 0]

\* ResampledDecoder::current
ResampledCurrent(r, d) ==
    IF r.state = "Resampled" THEN r.inner.out_buf ELSE DecoderCurrent(d)

\* the slice ResampleDecoderInner::flush returns of out_buf: &out_buf[..n_out]
FlushSlice(out_buf, n_out, channels) == Take(out_buf, n_out)

\* the partial length ResampleDecoderInner::flush hands the resampler
PartialLen(input_frames, in_position, channels) ==
    input_frames - (in_position \div channels)

\* ResampleDecoderInner::flush: [inner, out, n_out], n_out 0 when the
\* resampler is not run
InnerFlush(inner) ==
    IF inner.position = 0 THEN [inner |-> inner, out |-> <<>>, n_out |-> 0]
    ELSE
      LET partial_len == PartialLen(inner.frames_in, inner.position,
                                    inner.channels)
          n_out == inner.frames_out
      IN  Only({[inner |-> [inner EXCEPT !.out_buf = out_buf],
                 out |-> FlushSlice(out_buf, n_out, inner.channels),
                 n_out |-> n_out] :
                   out_buf \in {Process(inner.in_buf, inner.channels,
                                        inner.frames_in, inner.frames_out,
                                        partial_len)}})

\* ResampledDecoder::flush
ResampledFlush(r) ==
    IF r.state = "Resampled"
    THEN Only({[r |-> [r EXCEPT !.inner = f.inner], out |-> f.out,
                n_out |-> f.n_out] :
                  f \in {InnerFlush(r.inner)}})
    ELSE [r |-> r, out |-> <<>>, n_out |-> 0]

\* a fill loop that copies from the same place of the block every time
AdvanceFramePositionStuck(frame_position, to_write) == frame_position

\* ResampleDecoderInner::next: self.frame_position += to_write
AdvanceFramePosition(frame_position, to_write) == frame_position + to_write

\* the fill loop of ResampleDecoderInner::next: [inner, d, res, fed], res one
\* of full, finished, diverges, panicked or a Decoder error, fed the samples
\* appended to in_buf
RECURSIVE FillInput(_, _, _)
FillInput(inner, d, fed) ==
    LET input_samples_left == inner.frames_in * inner.channels
        cur_frame == DecoderCurrent(d)
    IN  IF inner.position >= input_samples_left
        THEN [inner |-> inner, d |-> d, res |-> "full", fed |-> fed]
        ELSE IF inner.frame_position > Len(cur_frame)
        THEN [inner |-> inner, d |-> d, res |-> "panicked", fed |-> fed]
        ELSE
          LET to_write == Min(Min(Len(cur_frame) - inner.frame_position,
                                  input_samples_left),
                              Len(inner.in_buf) - inner.position)
              src == SubSeq(cur_frame, inner.frame_position + 1,
                            inner.frame_position + to_write)
              copied == [inner EXCEPT
                  !.in_buf = [i \in 1..Len(@) |->
                                IF i > inner.position /\ i <= inner.position + to_write
                                THEN src[i - inner.position] ELSE @[i]],
                  !.position = @ + to_write,
                  !.frame_position = AdvanceFramePosition(@, to_write)]
          IN  Only({
                IF inner1.frame_position = Len(cur_frame)
                THEN Only({
                       IF n.res = "none"
                       THEN [inner |-> inner2, d |-> n.d, res |-> "finished",
                             fed |-> fed1]
                       ELSE IF n.res # "some"
                       THEN [inner |-> inner2, d |-> n.d, res |-> n.res,
                             fed |-> fed1]
                       ELSE IF n.d.paused /\ n.d.buf_len = 0
                                /\ inner2.position < input_samples_left
                       THEN [inner |-> inner2, d |-> n.d, res |-> "diverges",
                             fed |-> fed1]
                       ELSE FillInput(inner2, n.d, fed1) :
                         n \in {DecoderNext(d)},
                         inner2 \in {[inner1 EXCEPT !.frame_position = 0]}})
                ELSE FillInput(inner1, d, fed1) :
                  inner1 \in {copied}, fed1 \in {fed \o src}})

\* ResampleDecoderInner::next
InnerNext(inner, d) ==
    Only({IF f.res = "full"
          THEN [inner |-> [f.inner EXCEPT !.out_buf =
                              Process(f.inner.in_buf, f.inner.channels,
                                      f.inner.frames_in, f.inner.frames_out,
                                      f.inner.frames_in)],
                d |-> f.d, res |-> "unfinished", fed |-> f.fed]
          ELSE f :
            f \in {FillInput([inner EXCEPT !.position = 0], d, <<>>)}})

\* ResampledDecoder::decode_next_frame: [r, d, res, fed]
DecodeNextFrame(r, d) ==
    IF r.state = "Resampled"
    THEN Only({[r |-> [r EXCEPT !.inner = n.inner], d |-> n.d,
                res |-> n.res, fed |-> n.fed] :
                  n \in {InnerNext(r.inner, d)}})
    ELSE Only({[r |-> r, d |-> n.d,
                res |-> IF n.res = "some" THEN "unfinished"
                        ELSE IF n.res = "none" THEN "finished" ELSE n.res,
                fed |-> <<>>] :
                  n \in {DecoderNext(d)}})

(***************************************************************************)
(* ResampledDecoder operations as a consumer drives them.                  *)
(***************************************************************************)
\* the sample rates of sources and devices
SampleRates == {5, 10}

NoHistory ==
    [delivered |-> <<>>, fed |-> <<>>, inits |-> 0, paused_decodes |-> 0,
     op |-> "none", res |-> "", out |-> <<>>, position |-> 0, n_out |-> 0,
     flushes |-> 0]

\* ResampledDecoder::initialize with the sample rate of a decoder
ResamplerInitialize ==
    /\ dnew.pc = "ready"
    /\ rhist.inits < MaxInits
    /\ \E rate \in SampleRates \cup {decoder.sample_rate} :
        /\ rhist.inits = 0 => rate = decoder.sample_rate
        /\ resampled' = ResampledInitialize(resampled, rate)
    /\ rhist' = [rhist EXCEPT !.inits = @ + 1, !.op = "initialize",
                              !.res = "", !.out = <<>>, !.flushes = 0]
    /\ UNCHANGED nonResVars

\* the first initialize of a ResampledDecoder
ResamplerFirstInitialize == rhist.inits = 0 /\ ResamplerInitialize

\* the consumer reads current() and calls decode_next_frame, as
\* AudioManager::write does; the histories are those of the samples between
\* the first initialize and the second
ResamplerDecodeNextFrame ==
    /\ dnew.pc = "ready"
    /\ rhist.inits > 0
    /\ rhist.op # "flush"
    /\ rhist.res \notin {"finished", "diverges", "panicked"}
    /\ decoder.paused => rhist.paused_decodes < MaxPausedDecodes
    /\ \E n \in {DecodeNextFrame(resampled, decoder)} :
       LET first == rhist.inits = 1
       IN  /\ resampled' = n.r
           /\ decoder' = n.d
           /\ rhist' = [rhist EXCEPT
                  !.delivered = IF first
                      THEN @ \o ResampledCurrent(resampled, decoder) ELSE @,
                  !.fed = IF first THEN @ \o n.fed ELSE @,
                  !.paused_decodes = IF decoder.paused THEN @ + 1 ELSE @,
                  !.op = "decode_next_frame", !.res = n.res, !.out = <<>>]
    /\ UNCHANGED <<dnew, dlast, outVars, mgrVars>>

\* decode_next_frame while the decoder is not paused
ResamplerDecodeUnpaused == ~decoder.paused /\ ResamplerDecodeNextFrame

\* ResampledDecoder::flush, once or again with no decode in between
ResamplerFlush ==
    /\ dnew.pc = "ready"
    /\ rhist.inits > 0
    /\ rhist.flushes < MaxFlushes
    /\ \E f \in {ResampledFlush(resampled)} :
           /\ resampled' = f.r
           /\ rhist' = [rhist EXCEPT
                  !.op = "flush", !.res = "", !.out = f.out,
                  !.position = resampled.inner.position, !.n_out = f.n_out,
                  !.flushes = @ + 1]
    /\ UNCHANGED nonResVars

(***************************************************************************)
(* AudioManager (src/src/audio_manager.rs) over a host with one device.    *)
(* The manager's thread runs one step at a time; the device callback runs  *)
(* between its steps while the stream plays.                               *)
(***************************************************************************)
\* crate::DEFAULT_SAMPLE_RATE, scaled down
DEFAULT_SAMPLE_RATE == 10

\* <T as DecalSample>::FORMAT of the sample type the manager plays
FORMAT == "F32"

\* str::trim of a name, a sequence of characters
RECURSIVE TrimStart(_)
TrimStart(name) ==
    IF Len(name) > 0 /\ name[1] = " " THEN TrimStart(Tail(name)) ELSE name

RECURSIVE TrimEnd(_)
TrimEnd(name) ==
    IF Len(name) > 0 /\ name[Len(name)] = " "
    THEN TrimEnd(SubSeq(name, 1, Len(name) - 1)) ELSE name

Trim(name) == TrimEnd(TrimStart(name))

\* cpal::SupportedStreamConfig
StreamConfig(channels, sample_rate, buffer, sample_format) ==
    [channels |-> channels, sample_rate |-> sample_rate,
     buffer_size |-> buffer, sample_format |-> sample_format]

\* cpal::SupportedStreamConfigRange
ConfigRange(channels, min_rate, max_rate, buffer, sample_format) ==
    [channels |-> channels, min_sample_rate |-> min_rate,
     max_sample_rate |-> max_rate, buffer_size |-> buffer,
     sample_format |-> sample_format]

\* SupportedStreamConfigRange::with_sample_rate
WithSampleRate(range, sample_rate) ==
    StreamConfig(range.channels, sample_rate, range.buffer_size,
                 range.sample_format)

\* a device of the host: its identity, its name, its default config and its
\* supported configs in the order the device lists them
OutputDevice(id, name, default_config, supported) ==
    [id |-> id, name |-> name, default_config |-> default_config,
     supported |-> supported]

\* a selection that takes the named device before it asks for the default
SelectDeviceNamedFirst(host, device_name) ==
    LET found == {i \in 1..Len(host.output_devices) :
                     device_name # None /\
                     Trim(host.output_devices[i].name) = Trim(device_name[1])}
    IN  IF found # {}
        THEN [res |-> "ok",
              device |-> host.output_devices[
                             CHOOSE i \in found : \A j \in found : i <= j]]
        ELSE IF host.default_output_device = None
        THEN [res |-> "NoDefaultDevice", device |-> None]
        ELSE [res |-> "ok", device |-> host.default_output_device[1]]

\* the device find_closest_config and new_output use: the default device is
\* asked for first, then the first device of that trimmed name: [res, device]
SelectDevice(host, device_name) ==
    IF host.default_output_device = None
    THEN [res |-> "NoDefaultDevice", device |-> None]
    ELSE LET default_device == host.default_output_device[1]
             found == {i \in 1..Len(host.output_devices) :
                          device_name # None /\
                          Trim(host.output_devices[i].name)
                              = Trim(device_name[1])}
         IN  [res |-> "ok",
              device |-> IF found # {}
                         THEN host.output_devices[
                                  CHOOSE i \in found : \A j \in found : i <= j]
                         ELSE default_device]

\* RequestedOutputConfig
Requested(sample_rate, channels, sample_format) ==
    [sample_rate |-> sample_rate, channels |-> channels,
     sample_format |-> sample_format]

\* a closest config that takes the first range of the requested channels
\* and rate whatever its sample format
ClosestConfigAnyFormat(device, config) ==
    LET default_config == device.default_config
        channels == IF config.channels = None THEN default_config.channels
                    ELSE config.channels[1]
        sample_rate == IF config.sample_rate = None
                       THEN default_config.sample_rate
                       ELSE config.sample_rate[1]
        sample_format == IF config.sample_format = None
                         THEN default_config.sample_format
                         ELSE config.sample_format[1]
        matching == {i \in 1..Len(device.supported) :
                        /\ device.supported[i].channels = channels
                        /\ device.supported[i].min_sample_rate <= sample_rate
                        /\ device.supported[i].max_sample_rate >= sample_rate}
    IN  IF /\ default_config.channels = channels
           /\ default_config.sample_rate = sample_rate
           /\ default_config.sample_format = sample_format
        THEN default_config
        ELSE IF matching # {}
        THEN WithSampleRate(device.supported[
                                CHOOSE i \in matching :
                                    \A j \in matching : i <= j],
                            sample_rate)
        ELSE default_config

\* the closest config of one device
ClosestConfig(device, config) ==
    LET default_config == device.default_config
        channels == IF config.channels = None THEN default_config.channels
                    ELSE config.channels[1]
        sample_rate == IF config.sample_rate = None
                       THEN default_config.sample_rate
                       ELSE config.sample_rate[1]
        sample_format == IF config.sample_format = None
                         THEN default_config.sample_format
                         ELSE config.sample_format[1]
        matching == {i \in 1..Len(device.supported) :
                        /\ device.supported[i].channels = channels
                        /\ device.supported[i].sample_format = sample_format
                        /\ device.supported[i].min_sample_rate <= sample_rate
                        /\ device.supported[i].max_sample_rate >= sample_rate}
    IN  IF /\ default_config.channels = channels
           /\ default_config.sample_rate = sample_rate
           /\ default_config.sample_format = sample_format
        THEN default_config
        ELSE IF matching # {}
        THEN WithSampleRate(device.supported[
                                CHOOSE i \in matching :
                                    \A j \in matching : i <= j],
                            sample_rate)
        ELSE default_config

\* OutputBuilder::find_closest_config: [res, config, device]
FindClosestConfig(host, device_name, config) ==
    LET selected == SelectDevice(host, device_name)
    IN  IF selected.res # "ok"
        THEN [res |-> selected.res, config |-> None, device |-> None]
        ELSE [res |-> "ok",
              config |-> ClosestConfig(selected.device, config),
              device |-> selected.device.id]

\* OutputBuilder::new_output: [res, o, current_device]; the shared
\* current_device is written before the device is looked up
BuilderNewOutput(host, device_name, config) ==
    LET selected == SelectDevice(host, device_name)
    IN  IF selected.res # "ok"
        THEN [res |-> selected.res, o |-> None,
              current_device |-> device_name]
        ELSE [res |-> "ok", o |-> NewOutput(selected.device.id, config),
              current_device |-> device_name]

\* the name the watchdog thread of OutputBuilder::new_from_host reads:
\* host.default_output_device().map(|d| d.name().unwrap_or_default())
\* .unwrap_or_default(), the empty name when there is no default device
DefaultDeviceName(host) ==
    IF host.default_output_device = None THEN <<>>
    ELSE host.default_output_device[1].name

\* the watchdog thread as it is spawned: its position, its local
\* current_default_device, and the changes of the host's default device
\* that have happened since
NoWatchdog ==
    [pc |-> "spawned", current_default_device |-> <<>>, changes |-> 0]

\* no call made yet on the builder under test
NoBuilder ==
    [host |-> [default_output_device |-> None, output_devices |-> <<>>],
     current_device |-> None, op |-> "none", device_name |-> None,
     config |-> <<>>, res |-> "", result |-> None, device |-> None,
     watchdog |-> NoWatchdog]

\* OutputBuilder::find_closest_config is called on the builder under test;
\* it takes &self and changes nothing, so it is not called twice in a row
BuilderFindClosestConfig(device_name, config) ==
    /\ bld.op # "find_closest_config"
    /\ \E r \in {FindClosestConfig(bld.host, device_name, config)} :
           bld' = [bld EXCEPT !.op = "find_closest_config",
                              !.device_name = device_name,
                              !.config = config, !.res = r.res,
                              !.result = r.config, !.device = r.device]
    /\ UNCHANGED <<outVars, decVars, resVars, mgr, mhist>>

\* OutputBuilder::new_output is called on the builder under test
BuilderCallNewOutput(device_name, config) ==
    /\ \E r \in {BuilderNewOutput(bld.host, device_name, config)} :
           bld' = [bld EXCEPT !.op = "new_output",
                              !.device_name = device_name,
                              !.config = config, !.res = r.res,
                              !.result = IF r.res = "ok" THEN r.o.config
                                         ELSE None,
                              !.device = IF r.res = "ok" THEN r.o.device
                                         ELSE None,
                              !.current_device = r.current_device]
    /\ UNCHANGED <<outVars, decVars, resVars, mgr, mhist>>

\* most changes of the default device of a host
MaxDefaultChanges == 3

\* the watchdog thread starts: it reads the name of the default device
WatchdogSpawn ==
    /\ bld.watchdog.pc = "spawned"
    /\ bld' = [bld EXCEPT
           !.watchdog.current_default_device = DefaultDeviceName(bld.host),
           !.watchdog.pc = "poll"]
    /\ UNCHANGED <<outVars, decVars, resVars, mgr, mhist>>

\* the watchdog thread at the top of its loop, after its sleep: it reads
\* current_device under the lock and goes on only when it is None
WatchdogPoll ==
    /\ bld.watchdog.pc = "poll"
    /\ bld' = [bld EXCEPT !.watchdog.pc =
                  IF bld.current_device = None THEN "unpinned" ELSE "pinned"]
    /\ UNCHANGED <<outVars, decVars, resVars, mgr, mhist>>

\* the watchdog thread found a device pinned: it sleeps and polls again
WatchdogSleep ==
    /\ bld.watchdog.pc = "pinned"
    /\ bld' = [bld EXCEPT !.watchdog.pc = "poll"]
    /\ UNCHANGED <<outVars, decVars, resVars, mgr, mhist>>

\* a watchdog that keeps the name it read when it was spawned
WatchdogObserveForgetful(current_default_device, default_device) ==
    [invoke |-> default_device # current_default_device,
     current_default_device |-> current_default_device]

\* the comparison of the watchdog thread: whether it invokes
\* on_configuration_changed, and the name it holds afterwards
WatchdogObserve(current_default_device, default_device) ==
    IF default_device # current_default_device
    THEN [invoke |-> TRUE, current_default_device |-> default_device]
    ELSE [invoke |-> FALSE, current_default_device |-> current_default_device]

\* the watchdog thread found no device pinned: it reads the name of the
\* default device, compares, and sleeps
WatchdogCompare ==
    /\ bld.watchdog.pc = "unpinned"
    /\ \E r \in {WatchdogObserve(bld.watchdog.current_default_device,
                                  DefaultDeviceName(bld.host))} :
        /\ bld' = [bld EXCEPT
               !.watchdog.current_default_device = r.current_default_device,
               !.watchdog.pc = "poll"]
        /\ dev' = [dev EXCEPT !.on_configuration_changed =
                      IF r.invoke THEN @ + 1 ELSE @]
    /\ UNCHANGED <<output, wb, accepted, played, cb, next_id, decVars,
                   resVars, mgr, mhist>>

\* the system makes another device of the host, or none, its default
HostDefaultChanges ==
    /\ bld.watchdog.changes < MaxDefaultChanges
    /\ \E default \in {None} \cup
                       {Some(bld.host.output_devices[i]) :
                            i \in 1..Len(bld.host.output_devices)} :
        /\ default # bld.host.default_output_device
        /\ bld' = [bld EXCEPT !.host.default_output_device = default,
                              !.watchdog.changes = @ + 1]
    /\ UNCHANGED <<outVars, decVars, resVars, mgr, mhist>>

\* the name of the only device of the hosts a manager plays on
DeviceName == <<"a">>

\* the hosts: one device, the default, with its default config and its
\* supported configs, each a channel count with a range of sample rates: the
\* default rate alone, or with one of the rates above and below it
Hosts ==
    {[default_output_device |-> Some(d), output_devices |-> <<d>>] :
        d \in {OutputDevice(1, DeviceName,
                   StreamConfig(c, 10, 0, FORMAT),
                   [i \in 1..Len(rates) |->
                       ConfigRange(c, rates[i], rates[i], 0, FORMAT)]) :
                 c \in {1, 2}, rates \in {<<10>>, <<5, 10>>, <<10, 20>>}}}

\* the sample rates of the sources a manager plays
SourceRates == {5, 10, 20}

\* the samples of the second source a manager plays lie above SecondBase,
\* those of the first below
SecondBase == 100

\* the loop of Decoder::initialize: [d, pc, err, skipped]
RECURSIVE InitializeLoop(_, _, _, _)
InitializeLoop(d, opt, volume, skipped) ==
    Only({IF r.pc = "init" THEN InitializeLoop(r.d, opt, volume, r.skipped)
          ELSE r :
            r \in {InitializePass(d, opt, volume, skipped)}})

\* Decoder::new without a start position: [d, pc, err, skipped]
DecoderNew(source, volume, output_channels) ==
    InitializeLoop([NewDecoder(source, volume, output_channels)
                       EXCEPT !.volume = IDENTITY],
                   "TrimSilence", volume, 0)

\* AudioManager::new over a host, and the sources its user will play
NewManager(host, playlist) ==
    [output_config |->
         FindClosestConfig(host, None,
             Requested(Some(DEFAULT_SAMPLE_RATE),
                       Some(host.default_output_device[1]
                                .default_config.channels),
                       Some(FORMAT))).config,
     device_name |-> None,
     current_device |-> None,
     volume |-> IDENTITY,
     host |-> host,
     playlist |-> playlist,
     cur |-> 0,
     pc |-> "idle",
     mode |-> "Default",
     output_config_changed |-> FALSE,
     resampler_config_changed |-> FALSE,
     in_write_all |-> FALSE,
     err |-> ""]

NoManagerHistory ==
    [steps |-> <<>>, rebuilt |-> FALSE, produced |-> <<>>, pushed |-> <<>>,
     finished |-> 0, flushed |-> 0, forced |-> 0, snapshot |-> <<>>,
     pre |-> <<>>, slept |-> 0, set_device |-> "none", sets |-> 0,
     retries |-> 0, first_base |-> 0]

\* most reset(decoder, Force) calls in a row
MaxForcedResets == 2

\* what a user of the manager can observe of the pipeline
Observable ==
    [output_config |-> mgr.output_config,
     stream |-> output.stream,
     resampler |-> [state |-> resampled.state,
                    in_sample_rate |-> resampled.in_sample_rate,
                    out_sample_rate |-> resampled.out_sample_rate],
     ring_buf |-> output.ring_buf,
     position |-> decoder.reader,
     current |-> ResampledCurrent(resampled, decoder)]

\* what a manager operation finds when it is entered; the record is kept
\* while the operation runs and when it fails
Entry(op) ==
    [op |-> op, stream |-> output.stream, config |-> output.config,
     output_config |-> mgr.output_config, resampled |-> resampled,
     decoder |-> decoder]

\* the reset steps in the order AudioManager::reset takes them
Step(name) == [mhist EXCEPT !.steps = Append(@, name)]

\* a step that takes several rounds is entered once
Entered(name) ==
    IF Len(mhist.steps) > 0 /\ mhist.steps[Len(mhist.steps)] = name
    THEN mhist ELSE Step(name)

\* AudioManager::init_decoder up to its call of reset: Decoder::new over the
\* next source, with the channels of the output config
MgrInitDecoder ==
    /\ mgr.pc \in {"idle", "ready"}
    /\ wb.pc = "idle"
    /\ mgr.cur < Len(mgr.playlist)
    /\ \E r \in {DecoderNew(mgr.playlist[mgr.cur + 1], mgr.volume,
                            mgr.output_config.channels)} :
        /\ decoder' = r.d
        /\ dnew' = [DnewIdle EXCEPT !.pc = r.pc, !.err = r.err,
                                    !.samples_skipped = r.skipped]
        /\ mgr' = [mgr EXCEPT !.cur = @ + 1,
                              !.pc = IF r.pc = "ready" THEN "reset"
                                     ELSE "failed",
                              !.mode = "Default",
                              !.err = r.err,
                              !.in_write_all = FALSE]
    /\ mhist' = [NoManagerHistory EXCEPT !.set_device = mhist.set_device,
                                         !.sets = mhist.sets]
    /\ UNCHANGED <<bld, dlast, outVars, resVars>>

\* most set_device calls of one manager
MaxSetDevice == 2

\* AudioManager::set_device with the name of a device of the host, between
\* two operations of the manager
MgrSetDevice ==
    /\ mgr.pc = "ready"
    /\ wb.pc = "idle"
    /\ mhist.sets < MaxSetDevice
    /\ \E i \in 1..Len(mgr.host.output_devices) :
           mgr' = [mgr EXCEPT
                      !.device_name = Some(mgr.host.output_devices[i].name)]
    /\ mhist' = [mhist EXCEPT !.set_device = "pending", !.sets = @ + 1]
    /\ UNCHANGED <<bld, outVars, decVars, resVars>>

\* the owner of the manager calls reset(decoder, Default) on the decoder it
\* plays, after a set_device
MgrResetDefault ==
    /\ mgr.pc = "ready"
    /\ wb.pc = "idle"
    /\ mhist.set_device = "pending"
    /\ mgr' = [mgr EXCEPT !.pc = "reset", !.mode = "Default",
                          !.in_write_all = FALSE]
    /\ mhist' = [mhist EXCEPT !.steps = <<>>, !.rebuilt = FALSE]
    /\ UNCHANGED <<bld, outVars, decVars, resVars>>

\* a reset returned Ok: a set_device before it has had its reset
ResetDone(h) ==
    [h EXCEPT !.set_device = IF @ = "pending" THEN "reset" ELSE @]

\* the owner of the manager calls reset(decoder, Force) on the decoder it
\* plays
MgrResetForce ==
    /\ mgr.pc = "ready"
    /\ wb.pc = "idle"
    /\ mhist.forced < MaxForcedResets
    /\ mgr' = [mgr EXCEPT !.pc = "reset", !.mode = "Force",
                          !.in_write_all = FALSE]
    /\ mhist' = [mhist EXCEPT !.forced = @ + 1, !.snapshot = Observable,
                              !.steps = <<>>, !.rebuilt = FALSE]
    /\ UNCHANGED <<bld, outVars, decVars, resVars>>

\* a reset that never returns early
NoChangesNeededNever(output_config_changed, in_sample_rate_changed) == FALSE

\* AudioManager::reset: the condition of its return with no change made
NoChangesNeeded(output_config_changed, in_sample_rate_changed) ==
    ~output_config_changed /\ ~in_sample_rate_changed

\* AudioManager::reset(decoder, mode) up to the first rebuild or flush: the
\* closest config, the three flags, and the return when nothing changed
MgrReset ==
    /\ mgr.pc = "reset"
    /\ LET found ==
               FindClosestConfig(mgr.host, mgr.device_name,
                   Requested(Some(decoder.sample_rate),
                             Some(mgr.output_config.channels), Some(FORMAT)))
           new_output_config == found.config
           force_reset == mgr.mode = "Force"
           output_config_changed ==
               new_output_config # mgr.output_config \/ force_reset
           in_sample_rate_changed ==
               resampled.in_sample_rate # decoder.sample_rate \/ force_reset
           resampler_config_changed ==
               \/ new_output_config.sample_rate # mgr.output_config.sample_rate
               \/ new_output_config.channels # mgr.output_config.channels
               \/ force_reset
       IN  IF found.res # "ok"
           THEN /\ mgr' = [mgr EXCEPT !.pc = "failed", !.err = found.res]
                /\ UNCHANGED <<output, dev, resampled, mhist>>
           ELSE IF NoChangesNeeded(output_config_changed,
                                   in_sample_rate_changed)
           THEN /\ resampled' = ResampledInitialize(resampled,
                                                    decoder.sample_rate)
                /\ \E r \in {AudioOutputStart(output, dev)} :
                       output' = r.o /\ dev' = r.dev
                /\ mgr' = [mgr EXCEPT !.output_config = new_output_config,
                                      !.pc = "ready"]
                /\ mhist' = ResetDone([mhist EXCEPT !.produced =
                      <<ResampledCurrent(resampled', decoder)>>])
           ELSE /\ mgr' = [mgr EXCEPT
                      !.output_config = new_output_config,
                      !.output_config_changed = output_config_changed,
                      !.resampler_config_changed = resampler_config_changed,
                      !.pc = IF output_config_changed THEN "rebuild"
                             ELSE "flush"]
                /\ UNCHANGED <<output, dev, resampled, mhist>>
    /\ UNCHANGED <<bld, wb, accepted, played, cb, next_id, decVars, rhist>>

\* AudioManager::rebuild_output: new_output on the device of device_name;
\* the old output is dropped when the new one is assigned
MgrRebuildOutput ==
    /\ mgr.pc = "rebuild"
    /\ \E r \in {BuilderNewOutput(mgr.host, mgr.device_name,
                                   mgr.output_config)} :
        IF r.res = "ok"
        THEN /\ output' = r.o
             /\ dev' = [dev EXCEPT !.live = 0]
             /\ mgr' = [mgr EXCEPT !.pc = "flush",
                                   !.current_device = r.current_device]
             /\ mhist' = [Step("reopen") EXCEPT !.rebuilt = TRUE]
        ELSE /\ mgr' = [mgr EXCEPT !.pc = "failed", !.err = r.res,
                                   !.current_device = r.current_device]
             /\ UNCHANGED <<output, dev, mhist>>
    /\ UNCHANGED <<bld, wb, accepted, played, cb, next_id, decVars, resVars>>

\* AudioManager::reset_output, between two operations of the manager: the
\* closest config to the current rate and channels on the device of
\* device_name, then rebuild_output
MgrResetOutput ==
    /\ mgr.pc = "ready"
    /\ wb.pc = "idle"
    /\ LET found ==
               FindClosestConfig(mgr.host, mgr.device_name,
                   Requested(Some(mgr.output_config.sample_rate),
                             Some(mgr.output_config.channels), Some(FORMAT)))
           new_output_config == found.config
       IN  IF found.res # "ok"
           THEN /\ mgr' = [mgr EXCEPT !.pc = "failed", !.err = found.res]
                /\ UNCHANGED <<output, dev, mhist>>
           ELSE \E r \in {BuilderNewOutput(mgr.host, mgr.device_name,
                                           new_output_config)} :
                IF r.res = "ok"
                THEN /\ output' = r.o
                     /\ dev' = [dev EXCEPT !.live = 0]
                     /\ mgr' = [mgr EXCEPT
                            !.output_config = new_output_config,
                            !.current_device = r.current_device]
                     /\ mhist' = [mhist EXCEPT !.steps = <<"reset_output">>,
                                               !.rebuilt = TRUE]
                ELSE /\ mgr' = [mgr EXCEPT
                            !.output_config = new_output_config,
                            !.pc = "failed", !.err = r.res,
                            !.current_device = r.current_device]
                     /\ UNCHANGED <<output, dev, mhist>>
    /\ UNCHANGED <<bld, wb, accepted, played, cb, next_id, decVars, resVars>>

\* AudioManager::flush enters flush_output: write_blocking of what the
\* resampler flushes
MgrFlush ==
    /\ mgr.pc = "flush"
    /\ wb.pc = "idle"
    /\ \E f \in {ResampledFlush(resampled)} :
        /\ resampled' = f.r
        /\ wb' = [pc |-> "loop", samples |-> f.out, slice |-> f.out,
                  base |-> Len(accepted)]
    /\ mgr' = [mgr EXCEPT !.pc = "flushing"]
    /\ mhist' = [Step("flush") EXCEPT !.pre = Entry("flush")]
    /\ UNCHANGED <<bld, output, accepted, played, cb, dev, next_id, decVars, rhist>>

\* a flush that leaves the stream alone when its write failed
ManagerFlushStopOnSuccess(res, o, dv) ==
    IF res = "ok"
    THEN [o |-> AudioOutputStop(o, dv).o, dev |-> AudioOutputStop(o, dv).dev,
          slept |-> DEFAULT_BUFFER_DURATION, res |-> res]
    ELSE [o |-> o, dev |-> dv, slept |-> 0, res |-> res]

\* AudioManager::flush from the result of flush_output on: the sleep of
\* settings.buffer_duration when the write succeeded, output.stop(), and
\* the result returned: [o, dev, slept, res]
ManagerFlush(res, o, dv) ==
    [o |-> AudioOutputStop(o, dv).o, dev |-> AudioOutputStop(o, dv).dev,
     slept |-> IF res = "ok" THEN DEFAULT_BUFFER_DURATION ELSE 0,
     res |-> res]

\* AudioManager::flush after flush_output returned: the sleep on success,
\* output.stop(), and the return to write_all or to reset
MgrFlushed ==
    /\ mgr.pc = "flushing"
    /\ wb.pc \in {"ok", "stalled"}
    /\ \E r \in {ManagerFlush(IF wb.pc = "ok" THEN "ok" ELSE "OutputStalled",
                               output, dev)} :
        /\ output' = r.o
        /\ dev' = r.dev
        /\ mgr' = [mgr EXCEPT
              !.pc = IF r.res # "ok" THEN "failed"
                     ELSE IF mgr.in_write_all THEN "idle" ELSE "initialize",
              !.err = IF r.res # "ok" THEN r.res ELSE @,
              !.in_write_all = FALSE]
        /\ mhist' = [Step("stop") EXCEPT
                        !.flushed = IF mgr.in_write_all THEN @ + 1 ELSE @,
                        !.pre = IF r.res # "ok" THEN @ ELSE <<>>,
                        !.slept = @ + r.slept]
    /\ wb' = WbIdle
    /\ UNCHANGED <<bld, accepted, played, cb, next_id, decVars, resVars>>

\* AudioManager::reset: the new ResampledDecoder when the output's rate or
\* channels changed, and its initialize
MgrInitialize ==
    /\ mgr.pc = "initialize"
    /\ resampled' = ResampledInitialize(
           IF mgr.resampler_config_changed
           THEN NewResampled(mgr.output_config.sample_rate,
                             mgr.output_config.channels, ChunkSize)
           ELSE resampled,
           decoder.sample_rate)
    /\ mgr' = [mgr EXCEPT !.pc = "prefill"]
    /\ mhist' = [mhist EXCEPT !.produced =
                    <<ResampledCurrent(resampled', decoder)>>]
    /\ UNCHANGED <<bld, outVars, decVars, rhist>>

\* the result of decode_next_frame as the manager sees it: the next step,
\* and the history with the block it produced or the Finished it reported
AfterDecode(n, on_unfinished, on_finished) ==
    [pc |-> IF n.res = "unfinished" THEN on_unfinished
            ELSE IF n.res = "finished" THEN on_finished ELSE "failed",
     err |-> IF n.res \in {"unfinished", "finished"} THEN "" ELSE n.res]

Produced(h, n) ==
    IF n.res = "unfinished"
    THEN [h EXCEPT !.produced = Append(@, ResampledCurrent(n.r, n.d))]
    ELSE IF n.res = "finished" THEN [h EXCEPT !.finished = @ + 1]
    ELSE h

\* a prefill loop that pushes the block whatever space is free
PrefillFitsAlways(current, o) == TRUE

\* the condition of the prefill loop of AudioManager::reset
PrefillFits(current, o) == Len(current) <= buffer_space_available(o)

\* one round of the prefill loop of AudioManager::reset
MgrPrefill ==
    /\ mgr.pc = "prefill"
    /\ LET current == ResampledCurrent(resampled, decoder)
       IN  IF PrefillFits(current, output)
           THEN /\ output' = RbWritten(output, current)
                /\ accepted' = accepted \o current
                /\ \E n \in {DecodeNextFrame(resampled, decoder)} :
                    /\ resampled' = n.r
                    /\ decoder' = n.d
                    /\ mgr' = [mgr EXCEPT
                          !.pc = AfterDecode(n, "prefill", "start").pc,
                          !.err = AfterDecode(n, "prefill", "start").err]
                    /\ mhist' = Produced(
                          [Entered("prefill") EXCEPT
                              !.pushed = Append(@, current)], n)
           ELSE /\ mgr' = [mgr EXCEPT !.pc = "start"]
                /\ mhist' = Entered("prefill")
                /\ UNCHANGED <<output, accepted, resampled, decoder>>
    /\ UNCHANGED <<bld, wb, played, cb, dev, next_id, dnew, dlast, rhist>>

\* AudioManager::reset: output.start() after the prefill
MgrStart ==
    /\ mgr.pc = "start"
    /\ \E r \in {AudioOutputStart(output, dev)} :
           output' = r.o /\ dev' = r.dev
    /\ mgr' = [mgr EXCEPT !.pc = "ready"]
    /\ mhist' = ResetDone(Step("start"))
    /\ UNCHANGED <<bld, wb, accepted, played, cb, next_id, decVars, resVars>>

\* AudioManager::write enters write_blocking with current(), from write_all
MgrWrite ==
    /\ mgr.pc = "ready"
    /\ wb.pc = "idle"
    /\ LET current == ResampledCurrent(resampled, decoder)
       IN  /\ wb' = [pc |-> "loop", samples |-> current, slice |-> current,
                     base |-> Len(accepted)]
           /\ mhist' = [mhist EXCEPT !.pushed = Append(@, current),
                                     !.pre = Entry("write"),
                                     !.retries = 0,
                                     !.first_base = Len(accepted)]
    /\ mgr' = [mgr EXCEPT !.pc = "writing", !.in_write_all = TRUE]
    /\ UNCHANGED <<bld, output, accepted, played, cb, dev, next_id, decVars, resVars>>

\* most retries of one write
MaxRetries == 2

\* the caller of AudioManager::write calls it again, with the same decoder,
\* after it failed with OutputStalled: write_blocking with current()
MgrRetryWrite ==
    /\ mgr.pc = "failed"
    /\ mgr.err = "OutputStalled"
    /\ wb.pc = "idle"
    /\ mhist.pre # <<>>
    /\ mhist.pre.op = "write"
    /\ mhist.retries < MaxRetries
    /\ LET current == ResampledCurrent(resampled, decoder)
       IN  /\ wb' = [pc |-> "loop", samples |-> current, slice |-> current,
                     base |-> Len(accepted)]
           /\ mhist' = [mhist EXCEPT !.retries = @ + 1]
    /\ mgr' = [mgr EXCEPT !.pc = "writing", !.err = ""]
    /\ UNCHANGED <<bld, output, accepted, played, cb, dev, next_id, decVars, resVars>>

\* AudioManager::write after write_blocking returned: decode_next_frame, and
\* in write_all the flush on Finished
MgrWritten ==
    /\ mgr.pc = "writing"
    /\ wb.pc \in {"ok", "stalled"}
    /\ wb' = WbIdle
    /\ IF wb.pc = "stalled"
       THEN /\ mgr' = [mgr EXCEPT !.pc = "failed", !.err = "OutputStalled"]
            /\ UNCHANGED <<resampled, decoder, mhist>>
       ELSE \E n \in {DecodeNextFrame(resampled, decoder)} :
            /\ resampled' = n.r
            /\ decoder' = n.d
            /\ mgr' = [mgr EXCEPT
                  !.pc = AfterDecode(n, "ready", "flush").pc,
                  !.err = AfterDecode(n, "ready", "flush").err]
            /\ mhist' = Produced([mhist EXCEPT !.pre = <<>>], n)
    /\ UNCHANGED <<bld, output, accepted, played, cb, dev, next_id, dnew, dlast, rhist>>

(***************************************************************************)
(* Specifications.                                                         *)
(***************************************************************************)
\* the stream config of the output under test: 1 frame of 2 channels per 200 ms
OutputConfig == [channels |-> 2, sample_rate |-> 5]

\* the sample rate of the sources
SourceRate == 5

IdleOutput ==
    /\ output = NewOutput("dev", OutputConfig)
    /\ wb = WbIdle
    /\ accepted = <<>>
    /\ played = <<>>
    /\ cb = [data |-> <<>>, written |-> 0, avail |-> 0]
    /\ dev = NoDevice
    /\ next_id = 1

IdleDecoder ==
    /\ decoder = NewDecoder(MakeSource(<<>>, 1, SourceRate, 0, 0), IDENTITY, 1)
    /\ dnew = DnewIdle
    /\ dlast = NoCall

IdleResampled ==
    /\ resampled = NewResampled(SourceRate, 1, ChunkSize)
    /\ rhist = NoHistory

IdleManager ==
    /\ mgr = NewManager(
           CHOOSE h \in Hosts :
               /\ h.output_devices[1].default_config.channels = 1
               /\ Len(h.output_devices[1].supported) = 1, <<>>)
    /\ mhist = NoManagerHistory

IdleBuilder == bld = NoBuilder

(* The AudioOutput alone: a producer and the device callback. *)
InitOutput ==
    IdleOutput /\ IdleDecoder /\ IdleResampled /\ IdleManager /\ IdleBuilder

NextOutput ==
    \/ Start
    \/ Stop
    \/ Write
    \/ WriteBlockingCall
    \/ WriteBlockingStep
    \/ WriteBlockingTimeout
    \/ WriteBlockingReturn
    \/ DataCallback

SpecOutput == InitOutput /\ [][NextOutput]_vars

(* The AudioOutput with its stream: the producer writes, the device runs   *)
(* the data callback and reports stream errors to the error callback.      *)
NextStream ==
    \/ Start
    \/ Stop
    \/ Write
    \/ DataCallback
    \/ StreamErrorCallback

SpecStream == InitOutput /\ [][NextStream]_vars

\* a foreign-track packet put after the first packet of a source
WithForeign(source) ==
    [source EXCEPT !.packets =
        IF Len(@) = 0 THEN @
        ELSE <<@[1], [@[1] EXCEPT !.track = TrackId + 1]>> \o Drop(@, 1)]

(* Decoder::new over every source of the bounds: any packet lengths, any  *)
(* count of leading silent samples, any volume, either initialize option. *)
InitDecoderNew ==
    /\ IdleOutput
    /\ IdleResampled
    /\ IdleManager
    /\ IdleBuilder
    /\ dlast = NoCall
    /\ \E frames \in FrameSeqs(MaxPackets), channels \in {1, 2},
          output_channels \in {1, 2}, volume \in 0..VolumeDen,
          opt \in {"TrimSilence", "PreserveSilence"} :
        \E lead \in 0..(SumSeq(frames) * channels) :
            /\ decoder = NewDecoder(
                   MakeSource(frames, channels, SourceRate, lead, 0),
                   volume, output_channels)
            /\ dnew = [pc |-> IF opt = "TrimSilence" THEN "init" ELSE "seek",
                       opt |-> opt, volume |-> volume,
                       samples_skipped |-> 0, err |-> ""]

NextDecoderNew ==
    \/ DecoderNewSeek
    \/ DecoderInitialize

SpecDecoderNew == InitDecoderNew /\ [][NextDecoderNew]_vars

\* Decoder::new runs on the thread of its caller: while a pass of the loop
\* of initialize changes the state, the next pass is taken
SpecDecoderNewFair == SpecDecoderNew /\ WF_vars(NextDecoderNew)

(* A Decoder constructed over a source with leading silence, with or       *)
(* without trimming, and then read to its end by its owner.                *)
NextTrim ==
    \/ DecoderNewSeek
    \/ DecoderInitialize
    \/ DecoderCallNext

SpecTrim == InitDecoderNew /\ [][NextTrim]_vars

(* A Decoder constructed over a stereo source and then driven by its owner. *)
InitDecoder ==
    /\ IdleOutput
    /\ IdleResampled
    /\ IdleManager
    /\ IdleBuilder
    /\ dlast = NoCall
    /\ \E frames \in FrameSeqs(MaxPackets), output_channels \in {1, 2},
          foreign \in BOOLEAN :
        LET source == MakeSource(frames, 2, SourceRate, 0, 0)
        IN  /\ decoder = NewDecoder(
                   IF foreign THEN WithForeign(source) ELSE source,
                   IDENTITY, output_channels)
            /\ dnew = [DnewIdle EXCEPT !.pc = "init"]

NextDecoder ==
    \/ DecoderInitialize
    \/ DecoderCallNext
    \/ DecoderPause
    \/ DecoderResume
    \/ DecoderSeek

SpecDecoder == InitDecoder /\ [][NextDecoder]_vars

\* what the demuxer and the codec report for a packet: a demuxer error hides
\* the packet from the codec
PacketFaults ==
    {[read |-> "ok", decode |-> c] :
        c \in {"ok", "decode_error", "reset_required", "io_error"}}
    \cup {[read |-> r, decode |-> "ok"] : r \in {"reset_required", "io_error"}}

WithFaults(source, faults) ==
    [source EXCEPT !.packets =
        [i \in 1..Len(@) |-> [@[i] EXCEPT !.read = faults[i].read,
                                          !.decode = faults[i].decode]]]

(* Decoder::new, with a start position or without, and then next() over a *)
(* source of one-frame packets of 1, 2 or 3 channels, any of which the    *)
(* demuxer or the codec may report an error for.                          *)
InitFaulty ==
    /\ IdleOutput
    /\ IdleResampled
    /\ IdleManager
    /\ IdleBuilder
    /\ dlast = NoCall
    /\ \E k \in 1..MaxPackets, channels \in {1, 2, 3},
          output_channels \in {1, 2},
          opt \in {"TrimSilence", "PreserveSilence"} :
        \E faults \in [1..k -> PacketFaults] :
            /\ decoder = NewDecoder(
                   WithFaults(MakeSource([i \in 1..k |-> 1], channels,
                                         SourceRate, 0, 0), faults),
                   IDENTITY, output_channels)
            /\ dnew = [DnewIdle EXCEPT
                         !.pc = IF opt = "TrimSilence" THEN "init" ELSE "seek",
                         !.opt = opt]

NextFaulty ==
    \/ DecoderNewSeek
    \/ DecoderInitialize
    \/ DecoderCallNext

SpecFaulty == InitFaulty /\ [][NextFaulty]_vars

(* A Decoder over a stereo source that is seekable or not: its owner calls *)
(* next() and seeks to times inside and past the end of the track.         *)
InitSeek ==
    /\ IdleOutput
    /\ IdleResampled
    /\ IdleManager
    /\ IdleBuilder
    /\ dlast = NoCall
    /\ \E frames \in FrameSeqs(MaxPackets), seekable \in BOOLEAN :
        /\ decoder = NewDecoder(
               [MakeSource(frames, 2, SourceRate, 0, 0) EXCEPT
                   !.seekable = seekable],
               IDENTITY, 2)
        /\ dnew = [DnewIdle EXCEPT !.pc = "init"]

NextSeek ==
    \/ DecoderInitialize
    \/ DecoderCallNext
    \/ DecoderSeek

SpecSeek == InitSeek /\ [][NextSeek]_vars

(* A ResampledDecoder over a Decoder whose source holds no silent sample. *)
InitResampled ==
    /\ IdleOutput
    /\ IdleManager
    /\ IdleBuilder
    /\ dlast = NoCall
    /\ rhist = NoHistory
    /\ \E frames \in FrameSeqs(MaxResampledPackets), channels \in {1, 2},
          rate \in SampleRates, out_channels \in {1, 2},
          out_rate \in SampleRates :
        /\ decoder = NewDecoder(MakeSource(frames, channels, rate, 0, 0),
                                IDENTITY, out_channels)
        /\ dnew = [DnewIdle EXCEPT !.pc = "init"]
        /\ resampled = NewResampled(out_rate, out_channels, ChunkSize)

(* The ResampledDecoder is initialized once; the consumer reads current() *)
(* and decodes the next frame, the owner pauses and resumes the decoder.   *)
NextResampler ==
    \/ DecoderInitialize
    \/ DecoderPause
    \/ DecoderResume
    \/ ResamplerFirstInitialize
    \/ ResamplerDecodeNextFrame
    \/ ResamplerFlush

SpecResampler == InitResampled /\ [][NextResampler]_vars

(* The same consumer and owner over sources of which a packet may decode   *)
(* to no sample at all: the decoder's current block can be empty.          *)
\* frames per packet of a source with empty packets
EmptyPacketFrames == {0, 1, 2}

InitEmptyBlock ==
    /\ IdleOutput
    /\ IdleManager
    /\ IdleBuilder
    /\ dlast = NoCall
    /\ rhist = NoHistory
    /\ \E frames \in UNION {[1..k -> EmptyPacketFrames] :
                              k \in 1..MaxResampledPackets},
          channels \in {1, 2}, rate \in SampleRates, out_channels \in {1, 2},
          out_rate \in SampleRates :
        /\ decoder = NewDecoder(MakeSource(frames, channels, rate, 0, 0),
                                IDENTITY, out_channels)
        /\ dnew = [DnewIdle EXCEPT !.pc = "init"]
        /\ resampled = NewResampled(out_rate, out_channels, ChunkSize)

SpecEmptyBlock == InitEmptyBlock /\ [][NextResampler]_vars

(* The ResampledDecoder is initialized again and again, with the sample    *)
(* rate of any decoder, between decodes and flushes.                       *)
NextReinit ==
    \/ DecoderInitialize
    \/ ResamplerInitialize
    \/ ResamplerDecodeUnpaused
    \/ ResamplerFlush

SpecReinit == InitResampled /\ [][NextReinit]_vars

(* A ResampledDecoder over sources whose rate makes an input chunk of two  *)
(* or three frames, so that a source can end after one or two frames of a  *)
(* chunk, is decoded to the end and flushed.                               *)
\* the sample rates of the sources whose last chunk is flushed
PartialRates == {10, 15}

InitPartial ==
    /\ IdleOutput
    /\ IdleManager
    /\ IdleBuilder
    /\ dlast = NoCall
    /\ rhist = NoHistory
    /\ \E frames \in FrameSeqs(MaxResampledPackets), channels \in {1, 2},
          rate \in PartialRates, out_channels \in {1, 2},
          out_rate \in SampleRates :
        /\ decoder = NewDecoder(MakeSource(frames, channels, rate, 0, 0),
                                IDENTITY, out_channels)
        /\ dnew = [DnewIdle EXCEPT !.pc = "init"]
        /\ resampled = NewResampled(out_rate, out_channels, ChunkSize)

NextPartial ==
    \/ DecoderInitialize
    \/ ResamplerFirstInitialize
    \/ ResamplerDecodeUnpaused
    \/ ResamplerFlush

SpecPartial == InitPartial /\ [][NextPartial]_vars

(***************************************************************************)
(* The watchdog thread of an OutputBuilder polls while the default device  *)
(* of the host changes and new_output pins a device or unpins it.          *)
WatchdogHosts ==
    LET a == OutputDevice(1, <<"a">>, StreamConfig(2, 10, 1, "F32"),
                          <<ConfigRange(2, 5, 20, 14, "F32")>>)
        b == OutputDevice(2, <<"b">>, StreamConfig(2, 10, 1, "F32"),
                          <<ConfigRange(2, 5, 20, 14, "F32")>>)
    IN  {[default_output_device |-> default, output_devices |-> <<a, b>>] :
            default \in {None, Some(a), Some(b)}}

InitWatchdog ==
    /\ IdleOutput
    /\ IdleDecoder
    /\ IdleResampled
    /\ IdleManager
    /\ \E host \in WatchdogHosts : bld = [NoBuilder EXCEPT !.host = host]

NextWatchdog ==
    \/ WatchdogSpawn
    \/ WatchdogPoll
    \/ WatchdogSleep
    \/ WatchdogCompare
    \/ HostDefaultChanges
    \/ \E device_name \in {None, Some(<<"a">>), Some(<<"b">>)} :
           BuilderCallNewOutput(device_name, StreamConfig(2, 10, 1, "F32"))

SpecWatchdog == InitWatchdog /\ [][NextWatchdog]_vars

(***************************************************************************)
(* An AudioManager built over a host plays two stereo sources one after   *)
(* the other: init_decoder, then write after write until Finished and the *)
(* flush of write_all, or init_decoder of the next source before that.    *)
InitManager ==
    /\ wb = WbIdle
    /\ accepted = <<>>
    /\ played = <<>>
    /\ cb = [data |-> <<>>, written |-> 0, avail |-> 0]
    /\ dev = NoDevice
    /\ next_id = 1
    /\ IdleDecoder
    /\ rhist = NoHistory
    /\ mhist = NoManagerHistory
    /\ bld = NoBuilder
    /\ \E host \in Hosts, frames \in FrameSeqs(MaxResampledPackets),
          first_rate \in SourceRates, second_rate \in SourceRates :
        /\ mgr = NewManager(host,
               <<MakeSource(frames, 2, first_rate, 0, 0),
                 MakeSource(<<1>>, 2, second_rate, 0, SecondBase)>>)
        /\ output = BuilderNewOutput(host, None, mgr.output_config).o
        /\ resampled = NewResampled(mgr.output_config.sample_rate,
                                    mgr.output_config.channels, ChunkSize)

NextManager ==
    \/ MgrInitDecoder
    \/ MgrReset
    \/ MgrRebuildOutput
    \/ MgrFlush
    \/ MgrFlushed
    \/ MgrInitialize
    \/ MgrPrefill
    \/ MgrStart
    \/ MgrWrite
    \/ MgrWritten
    \/ WriteBlockingStep
    \/ WriteBlockingTimeout
    \/ DataCallback

SpecManager == InitManager /\ [][NextManager]_vars

(* The same manager, whose user calls write again when it has stalled.     *)
\* a manager on a mono device, playing a first source at the device's default
\* rate and a second one at any rate
InitRetry ==
    /\ wb = WbIdle
    /\ accepted = <<>>
    /\ played = <<>>
    /\ cb = [data |-> <<>>, written |-> 0, avail |-> 0]
    /\ dev = NoDevice
    /\ next_id = 1
    /\ IdleDecoder
    /\ rhist = NoHistory
    /\ mhist = NoManagerHistory
    /\ bld = NoBuilder
    /\ \E host \in {h \in Hosts :
                      h.output_devices[1].default_config.channels = 1},
          frames \in FrameSeqs(MaxResampledPackets),
          second_rate \in SourceRates :
        /\ mgr = NewManager(host,
               <<MakeSource(frames, 2,
                     host.output_devices[1].default_config.sample_rate, 0, 0),
                 MakeSource(<<1>>, 2, second_rate, 0, SecondBase)>>)
        /\ output = BuilderNewOutput(host, None, mgr.output_config).o
        /\ resampled = NewResampled(mgr.output_config.sample_rate,
                                    mgr.output_config.channels, ChunkSize)

NextRetry ==
    \/ NextManager
    \/ MgrRetryWrite

SpecRetry == InitRetry /\ [][NextRetry]_vars

(* An AudioManager whose owner, after init_decoder, calls reset(decoder,   *)
(* Force) again and again with nothing in between; the device runs no data *)
(* callback meanwhile.                                                     *)
NextForce ==
    \/ MgrInitDecoder
    \/ MgrReset
    \/ MgrResetForce
    \/ MgrRebuildOutput
    \/ MgrFlush
    \/ MgrFlushed
    \/ MgrInitialize
    \/ MgrPrefill
    \/ MgrStart
    \/ WriteBlockingStep
    \/ WriteBlockingTimeout

SpecForce == InitManager /\ [][NextForce]_vars

\* A manager over a host of two devices: its owner plays a source, names a
\* device with set_device and resets, in either mode or with the next source.
DeviceHosts ==
    {[default_output_device |-> Some(a), output_devices |-> <<a, b>>] :
        a \in {OutputDevice(1, <<"a">>, StreamConfig(1, 10, 0, FORMAT),
                            <<ConfigRange(1, 10, 20, 0, FORMAT)>>)},
        b \in {OutputDevice(2, <<"b">>, StreamConfig(c, r, 0, FORMAT),
                            IF ranged
                            THEN <<ConfigRange(c, 10, 20, 0, FORMAT)>>
                            ELSE <<>>) :
                 c \in {1, 2}, r \in {10, 20}, ranged \in BOOLEAN}}

InitDevice ==
    /\ wb = WbIdle
    /\ accepted = <<>>
    /\ played = <<>>
    /\ cb = [data |-> <<>>, written |-> 0, avail |-> 0]
    /\ dev = NoDevice
    /\ next_id = 1
    /\ IdleDecoder
    /\ rhist = NoHistory
    /\ mhist = NoManagerHistory
    /\ bld = NoBuilder
    /\ \E host \in DeviceHosts, first_rate \in {10, 20},
          second_rate \in {10, 20} :
        /\ mgr = NewManager(host,
               <<MakeSource(<<1, 1>>, 2, first_rate, 0, 0),
                 MakeSource(<<1>>, 2, second_rate, 0, SecondBase)>>)
        /\ output = BuilderNewOutput(host, None, mgr.output_config).o
        /\ resampled = NewResampled(mgr.output_config.sample_rate,
                                    mgr.output_config.channels, ChunkSize)

NextDevice ==
    \/ MgrInitDecoder
    \/ MgrSetDevice
    \/ MgrResetDefault
    \/ MgrResetForce
    \/ MgrReset
    \/ MgrRebuildOutput
    \/ MgrFlush
    \/ MgrFlushed
    \/ MgrInitialize
    \/ MgrPrefill
    \/ MgrStart
    \/ WriteBlockingStep
    \/ WriteBlockingTimeout

SpecDevice == InitDevice /\ [][NextDevice]_vars

(* The same manager, whose owner also calls reset_output.                  *)
NextResetOutput ==
    \/ NextDevice
    \/ MgrResetOutput

SpecResetOutput == InitDevice /\ [][NextResetOutput]_vars

\* A Decoder with a mono output over a stereo source of one packet of two
\* frames, L R and R L, with samples from the whole range of T.
MixSamples ==
    {SampleMin, SampleMin + 1, 0 - 3, 0 - 1, 0, 1, 2, SampleMax - 1, SampleMax}

InitMix ==
    /\ IdleOutput
    /\ IdleResampled
    /\ IdleManager
    /\ IdleBuilder
    /\ dlast = NoCall
    /\ dnew = [DnewIdle EXCEPT !.pc = "init"]
    /\ \E l \in MixSamples, r \in MixSamples, volume \in 0..VolumeDen :
           decoder = NewDecoder(
               [MakeSource(<<2>>, 2, SourceRate, 0, 0)
                   EXCEPT !.packets[1].samples = <<l, r, r, l>>],
               volume, 1)

NextMix == DecoderProcessOutput

SpecMix == InitMix /\ [][NextMix]_vars

\* An OutputBuilder over hosts of up to three devices, with or without a
\* default device: find_closest_config and new_output are called with every
\* name and every request.
SupportedLists ==
    {<<>>,
     <<ConfigRange(2, 5, 20, 11, "F32")>>,
     <<ConfigRange(1, 5, 20, 11, "F32"), ConfigRange(2, 5, 10, 12, "F32"),
       ConfigRange(2, 5, 20, 13, "F32")>>,
     <<ConfigRange(2, 5, 20, 11, "I16"), ConfigRange(1, 10, 10, 12, "I16"),
       ConfigRange(1, 5, 20, 13, "F32")>>}

BuilderHosts ==
    {[default_output_device |-> default, output_devices |-> devices] :
        default \in {None,
                     Some(OutputDevice(1, <<"a">>,
                              StreamConfig(2, 10, 1, "F32"),
                              <<ConfigRange(2, 5, 20, 14, "F32")>>))},
        devices \in
            UNION {{<<>>, <<a>>, <<a, b>>, <<b, a>>, <<a, b, c>>, <<a, c, b>>} :
                a \in {OutputDevice(1, <<"a">>, StreamConfig(2, 10, 1, "F32"),
                                    <<ConfigRange(2, 5, 20, 14, "F32")>>)},
                b \in {OutputDevice(2, name, StreamConfig(2, 20, 2, "F32"),
                                    supported) :
                         name \in {<<"b">>, <<" ", "b", " ">>, <<"a">>},
                         supported \in SupportedLists},
                c \in {OutputDevice(3, <<"b">>, StreamConfig(1, 10, 3, "I16"),
                                    <<ConfigRange(1, 5, 20, 15, "I16")>>)}}}

DeviceNames ==
    {None, Some(<<"a">>), Some(<<"b">>), Some(<<"b", " ">>), Some(<<"c">>)}

RequestedConfigs ==
    {Requested(sample_rate, channels, sample_format) :
        sample_rate \in {None, Some(5), Some(10), Some(20), Some(40)},
        channels \in {None, Some(1), Some(2)},
        sample_format \in {None, Some("F32"), Some("I16")}}

InitBuilder ==
    /\ IdleOutput
    /\ IdleDecoder
    /\ IdleResampled
    /\ IdleManager
    /\ \E host \in BuilderHosts : bld = [NoBuilder EXCEPT !.host = host]

NextBuilder ==
    \/ \E device_name \in DeviceNames, config \in RequestedConfigs :
           BuilderFindClosestConfig(device_name, config)
    \/ \E device_name \in DeviceNames :
           BuilderCallNewOutput(device_name, StreamConfig(2, 10, 1, "F32"))

SpecBuilder == InitBuilder /\ [][NextBuilder]_vars

(***************************************************************************)
(* C1: for any interleaving of producer writes and data callbacks on one   *)
(* AudioOutput, the non-padding samples handed to the device so far,       *)
(* followed by the samples still in the ring buffer, are exactly the       *)
(* samples the producer's writes were accepted for, in order (so the       *)
(* played samples are a prefix, nothing lost or duplicated); and a         *)
(* callback that finds fewer than data.len() samples copies them to the    *)
(* front of data and fills the whole remainder with the silence value.     *)
(***************************************************************************)
C1_CallbackPlaysPrefix ==
    /\ played \o output.ring_buf = accepted
    /\ IsPrefix(played, accepted)
    /\ cb.written = Min(Len(cb.data), cb.avail)
    /\ Len(played) >= cb.written
    /\ \A i \in 1..Len(cb.data) :
        cb.data[i] = IF i <= cb.written
                     THEN played[Len(played) - cb.written + i]
                     ELSE EQUILIBRIUM

\* a callback found fewer samples than its buffer holds, and some sample
C1_Witness ==
    /\ cb.written > 0
    /\ cb.written < Len(cb.data)
    /\ Len(accepted) > Len(played)

(***************************************************************************)
(* C2: write_blocking returns Ok only after every sample of the slice has  *)
(* been enqueued exactly once and in order; it returns OutputStalled only  *)
(* after a wait on a full ring buffer timed out, and then exactly a prefix *)
(* of the slice has been enqueued.                                         *)
(***************************************************************************)
WbEnqueued == SubSeq(accepted, wb.base + 1, Len(accepted))

C2_WriteBlockingEnqueuesSlice ==
    /\ wb.pc = "ok" => WbEnqueued = wb.slice
    /\ wb.pc = "stalled" =>
        /\ IsPrefix(WbEnqueued, wb.slice)
        /\ WbEnqueued \o wb.samples = wb.slice
        /\ Len(wb.samples) > 0
    /\ wb.pc = "loop" => WbEnqueued \o wb.samples = wb.slice

\* a write_blocking that needed two partial writes has returned Ok
C2_Witness ==
    /\ wb.pc = "ok"
    /\ Len(wb.slice) = MaxWrite
    /\ Len(played) > 0
    /\ Len(accepted) = MaxSamples

C2_WitnessStalled ==
    /\ wb.pc = "stalled"
    /\ Len(WbEnqueued) > 0



(***************************************************************************)
(* C5: after a seek that returned Ok with required_ts = r, an unpaused     *)
(* next() skips every packet of the track with ts < r and the block it     *)
(* returns comes from a packet with ts >= r, the first such packet the     *)
(* codec decodes; seek_required_ts is Some(r) until that packet is taken   *)
(* and None afterwards.                                                    *)
(***************************************************************************)
OwnPacket(i) == decoder.source.packets[i].track = decoder.track_id

PacketTs(i) == decoder.source.packets[i].ts

C6_PausedNextIsSilent ==
    (dlast.op = "next" /\ dlast.pre.paused) =>
        /\ dlast.res = "some"
        /\ decoder.reader = dlast.pre.reader
        /\ decoder.timestamp = dlast.pre.timestamp
        /\ decoder.buf_len = dlast.pre.buf_len
        /\ decoder.sample_rate = dlast.pre.sample_rate
        /\ decoder.seek_required_ts = dlast.pre.seek_required_ts
        /\ \A i \in 1..Len(decoder.buf) : decoder.buf[i] = MID
        /\ DecoderCurrent(decoder) = Fill(dlast.pre.buf_len, MID)

\* a paused next() with packets left to read and a seek pending
C6_Witness ==
    /\ dlast.op = "next"
    /\ dlast.pre.paused
    /\ decoder.paused
    /\ decoder.buf_len > 0
    /\ decoder.reader <= Len(decoder.source.packets)
    /\ decoder.seek_required_ts # None

(***************************************************************************)
(* C8 as claimed: after construction with leading-silence trimming and the *)
(* volume 1, current() begins with a non-silent sample (its first element  *)
(* differs from MID), or every block was silent and next() reported end of *)
(* stream.                                                                 *)
(***************************************************************************)
Constructed == dnew.pc = "ready" /\ dnew.opt = "TrimSilence"

C8_FirstSampleNonSilent ==
    (Constructed /\ dnew.volume = IDENTITY) =>
        \/ decoder.buf_len > 0 /\ decoder.buf[1] # MID
        \/ /\ decoder.reader > Len(decoder.source.packets)
           /\ \A i \in 1..Len(decoder.buf) : decoder.buf[i] = MID

(***************************************************************************)
(* C8 as amended: after construction with leading-silence trimming,        *)
(* current() is the block of the last packet read, mixed to the output     *)
(* channels, from the start of the output frame that holds its first       *)
(* non-silent sample on, every sample scaled by the volume; so with the    *)
(* volume 1 a sample of the first frame of current() differs from MID, and *)
(* the first element is silent only for a stereo output whose first        *)
(* non-silent sample is the right one.                                     *)
(***************************************************************************)
C8_FirstFrameNonSilent ==
    Constructed =>
        LET packet == decoder.source.packets[decoder.reader - 1]
            raw == MixChannels(packet.samples, decoder.input_channels,
                               decoder.output_channels, IDENTITY)
            cur == DecoderCurrent(decoder)
        IN  /\ decoder.reader > 1
            /\ \E start \in 0..(Len(raw) - 1) :
                /\ start % decoder.output_channels = 0
                /\ \A i \in 1..start : raw[i] = MID
                /\ \E k \in 1..decoder.output_channels :
                      start + k <= Len(raw) /\ raw[start + k] # MID
                /\ Len(cur) = Len(raw) - start
                /\ \A i \in 1..Len(cur) :
                      cur[i] = MulAmp(raw[start + i], dnew.volume)
            /\ dnew.volume = IDENTITY =>
                \E k \in 1..decoder.output_channels :
                    k <= Len(cur) /\ cur[k] # MID
            /\ (dnew.volume = IDENTITY /\ cur[1] = MID) =>
                decoder.output_channels = 2 /\ cur[2] # MID

\* construction backed up from an odd index after skipping a silent block
C8_Witness ==
    /\ Constructed
    /\ dnew.volume = IDENTITY
    /\ decoder.output_channels = 2
    /\ decoder.buf_len >= 2
    /\ decoder.buf[1] = MID
    /\ dnew.samples_skipped > 0

(***************************************************************************)
(* C7: for any source and any placement of pause() and resume() between    *)
(* calls, the samples delivered downstream, the silent blocks produced     *)
(* while paused removed, are the samples delivered with no pause: in the   *)
(* Native state the blocks the consumer reads from current() around        *)
(* decode_next_frame (which is Decoder::next), in the Resampled state the  *)
(* samples ResampleDecoderInner::next takes from the decoder into the      *)
(* resampler.  They are a prefix of the decoded stream of the source, in   *)
(* order, and the whole of it once Finished is reported: no decoded sample *)
(* is dropped, overwritten before it is consumed, or delivered twice.      *)
(***************************************************************************)
RECURSIVE Flatten(_)
Flatten(blocks) ==
    IF Len(blocks) = 0 THEN <<>> ELSE blocks[1] \o Flatten(Drop(blocks, 1))

\* the samples a Decoder that is never paused delivers over its whole source
DecodedStream(d) ==
    Flatten([i \in 1..Len(d.source.packets) |->
                MixChannels(d.source.packets[i].samples, d.source.channels,
                            d.output_channels, d.volume)])

NonSilent(samples) == SelectSeq(samples, LAMBDA x : x # MID)

\* what went downstream of the decoder
Downstream ==
    IF resampled.state = "Resampled" THEN rhist.fed ELSE rhist.delivered

C7_PauseLosesNoSample ==
    rhist.inits > 0 =>
        /\ IsPrefix(NonSilent(Downstream), DecodedStream(decoder))
        /\ rhist.res = "finished" =>
              NonSilent(Downstream) = DecodedStream(decoder)

\* a resampled source was paused and resumed in the middle and played to its
\* end: silence went into the resampler between its samples
C7_Witness ==
    /\ resampled.state = "Resampled"
    /\ rhist.res = "finished"
    /\ rhist.paused_decodes > 0
    /\ \E i, j, k \in 1..Len(rhist.fed) :
          /\ i < j /\ j < k
          /\ rhist.fed[i] # MID /\ rhist.fed[j] = MID /\ rhist.fed[k] # MID

\* the same in the Native state
C7_WitnessNative ==
    /\ resampled.state = "Native"
    /\ rhist.res = "finished"
    /\ rhist.paused_decodes > 0
    /\ \E i, j, k \in 1..Len(rhist.delivered) :
          /\ i < j /\ j < k
          /\ rhist.delivered[i] # MID /\ rhist.delivered[j] = MID
          /\ rhist.delivered[k] # MID

(***************************************************************************)
(* C9: after any sequence of initialize calls on a ResampledDecoder, with  *)
(* any sequence of decoder sample rates, the state is Native exactly when  *)
(* in_sample_rate = out_sample_rate and Resampled otherwise, and whenever  *)
(* the rates are equal current(decoder) is decoder.current() itself.       *)
(***************************************************************************)
C9_NativeIffRatesEqual ==
    rhist.inits > 0 =>
        /\ (resampled.state = "Native") <=>
              (resampled.in_sample_rate = resampled.out_sample_rate)
        /\ resampled.in_sample_rate = resampled.out_sample_rate =>
              ResampledCurrent(resampled, decoder) = DecoderCurrent(decoder)

(***************************************************************************)
(* C10: when the resampler input buffer holds position > 0 samples,        *)
(* flush() returns exactly the first n_out * channels samples of out_buf,  *)
(* n_out the number of output frames the resampler reports for the partial *)
(* pass: every channel of every produced output frame is returned.         *)
(***************************************************************************)
C10_FlushReturnsAllChannels ==
    (rhist.op = "flush" /\ rhist.position > 0) =>
        rhist.out = Take(resampled.inner.out_buf,
                         rhist.n_out * resampled.channels)

(***************************************************************************)
(* C3: whenever Manager.reset reconfigures across a changed output config, *)
(* its steps occur in the order flush (the remaining samples of the        *)
(* previous source go to the old output), stop, reopen (build the new      *)
(* output), prefill, start; and no sample produced from the previous       *)
(* source, the resampler's flushed remainder included, is ever written     *)
(* into the ring buffer of the newly built output.                         *)
(***************************************************************************)
\* the source of the playlist a sample comes from, 0 for silence
SourceOf(sample) ==
    IF sample = MID THEN 0 ELSE IF sample < SecondBase THEN 1 ELSE 2

NoSampleOfPreviousSource ==
    \A i \in 1..Len(output.ring_buf) :
        SourceOf(output.ring_buf[i]) \in {0, mgr.cur}

C3_FlushStopReopenNoLeak ==
    mhist.rebuilt =>
        /\ IsPrefix(mhist.steps,
                    <<"flush", "stop", "reopen", "prefill", "start">>)
        /\ NoSampleOfPreviousSource

\* the second half of C3 alone: the new output holds no sample of the
\* previous source
C3_NoLeakIntoNewOutput == mhist.rebuilt => NoSampleOfPreviousSource

(***************************************************************************)
(* C4: for every finite source, init_decoder followed by write_all pushes  *)
(* each block the (resampled) decoder produces into the ring buffer        *)
(* exactly once and in decode order, observes Finished exactly once, and   *)
(* then flushes, whether the prefill stops on a full ring buffer or on a   *)
(* Finished of the decoder.                                                *)
(***************************************************************************)
C4_EachBlockOnceFinishedOnce ==
    /\ IsPrefix(mhist.pushed, mhist.produced)
    /\ mhist.finished <= 1
    /\ (mgr.pc = "idle" /\ mgr.cur > 0) =>
          /\ mhist.pushed = mhist.produced
          /\ mhist.finished = 1
          /\ mhist.flushed >= 1

(***************************************************************************)
(* C11: flush() resets the resampler input buffer on exit: right after any *)
(* flush() the input position is 0, so a second flush() with no decode in  *)
(* between returns an empty slice and does not run the resampler; flush()  *)
(* on an empty input buffer and flush() in the Native state return an      *)
(* empty slice and do not run the resampler.                               *)
(***************************************************************************)
C11_FlushResetsInput ==
    rhist.op = "flush" =>
        /\ resampled.state = "Resampled" => resampled.inner.position = 0
        /\ rhist.flushes > 1 => rhist.out = <<>> /\ rhist.n_out = 0
        /\ (rhist.position = 0 \/ resampled.state = "Native") =>
               rhist.out = <<>> /\ rhist.n_out = 0

\* the part of C11 the code keeps: a flush that finds the input buffer empty,
\* or the Native state, returns an empty slice and runs no resampler
C11_EmptyFlushIsEmpty ==
    (rhist.op = "flush"
        /\ (rhist.position = 0 \/ resampled.state = "Native")) =>
           rhist.out = <<>> /\ rhist.n_out = 0

(***************************************************************************)
(* C12 as claimed: once an unpaused next() has returned Ok(None), every     *)
(* later unpaused next() with no seek() that returned Ok in between also    *)
(* returns Ok(None), reads no packet, and leaves current() and buf_len      *)
(* unchanged.                                                              *)
(***************************************************************************)
NextStaysAtEnd ==
    /\ dlast.res = "none"
    /\ decoder.reader = dlast.pre.reader
    /\ DecoderCurrent(decoder) = dlast.pre.current
    /\ decoder.buf_len = dlast.pre.buf_len

C12_EndOfStreamUntilSeekOk ==
    (dlast.op = "next" /\ ~dlast.pre.paused /\ dlast.was_ended) =>
        NextStaysAtEnd

(***************************************************************************)
(* C12 as amended: once an unpaused next() has returned Ok(None), every     *)
(* later unpaused next() with no call of seek() in between also returns     *)
(* Ok(None), reads no packet, and leaves current() and buf_len unchanged;   *)
(* a seek() that returned an error after its fallback re-seek moved the     *)
(* reader back counts as a seek.                                           *)
(***************************************************************************)
C12_EndOfStreamUntilSeek ==
    (dlast.op = "next" /\ ~dlast.pre.paused /\ dlast.was_settled) =>
        NextStaysAtEnd

C12_Witness ==
    /\ dlast.op = "next" /\ ~dlast.pre.paused /\ dlast.was_settled
    /\ dlast.res = "none"
    /\ dlast.pre.buf_len > 0
    /\ \E i \in 1..decoder.buf_len : decoder.buf[i] # MID

(***************************************************************************)
(* C13: next() never returns the Recoverable error: a packet the codec     *)
(* reports a DecodeError for is discarded and the same call goes on with   *)
(* the following packet of the track; ResetRequired from the demuxer or    *)
(* the codec is returned as ResetRequired, any other demuxer or codec      *)
(* error as DecodeError.  So a call ends at the first packet from the      *)
(* reader position on that is not discarded and its result is decided by   *)
(* that packet alone.                                                      *)
(***************************************************************************)
Discarded(p, required_ts) ==
    /\ p.read = "ok"
    /\ \/ p.track # decoder.track_id
       \/ required_ts # None /\ p.ts < required_ts[1]
       \/ p.decode = "decode_error"

\* the first packet from position from on that a call does not discard
StopsAt(from, required_ts) ==
    LET packets == decoder.source.packets
        kept == {i \in from..Len(packets) : ~Discarded(packets[i], required_ts)}
    IN  IF kept = {} THEN Len(packets) + 1
        ELSE CHOOSE i \in kept : \A j \in kept : i <= j

OutcomeOf(k, pre) ==
    IF k > Len(decoder.source.packets) THEN "none"
    ELSE LET p == decoder.source.packets[k]
         IN  IF p.read = "reset_required" THEN "reset_required"
             ELSE IF p.read # "ok" THEN "decode_error"
             ELSE IF p.decode = "reset_required" THEN "reset_required"
             ELSE IF p.decode # "ok" THEN "decode_error"
             ELSE IF pre.sample_rate = 0 /\ decoder.source.channels > 2
             THEN "unsupported_format"
             ELSE "some"

C13_NextAbsorbsRecoverable ==
    /\ dnew.err # "recoverable"
    /\ (dlast.op = "next" /\ ~dlast.pre.paused) =>
          LET k == StopsAt(dlast.pre.reader, dlast.pre.seek_required_ts)
          IN  /\ dlast.res # "recoverable"
              /\ dlast.res = OutcomeOf(k, dlast.pre)
              /\ decoder.reader = Min(k, Len(decoder.source.packets)) + 1
              /\ dlast.res = "some" =>
                    DecoderCurrent(decoder) =
                        MixChannels(decoder.source.packets[k].samples,
                                    decoder.input_channels,
                                    decoder.output_channels, decoder.volume)

\* a call that discarded a packet of the track and returned the following one
C13_Witness ==
    /\ dlast.op = "next" /\ ~dlast.pre.paused /\ dlast.res = "some"
    /\ decoder.reader = dlast.pre.reader + 2
    /\ decoder.source.packets[dlast.pre.reader].decode = "decode_error"

C13_WitnessResetRequired ==
    /\ dlast.op = "next" /\ dlast.res = "reset_required"
    /\ decoder.source.packets[decoder.reader - 1].decode = "reset_required"

C13_WitnessDecodeError ==
    /\ dlast.op = "next" /\ dlast.res = "decode_error"
    /\ decoder.source.packets[decoder.reader - 1].read = "io_error"

(***************************************************************************)
(* C14: if the first packet the codec decodes reports more than 2          *)
(* channels, Decoder::new fails with UnsupportedFormat and returns no      *)
(* Decoder; a first packet of 1 or 2 channels never gives                  *)
(* UnsupportedFormat.                                                      *)
(***************************************************************************)
C14_MoreThanTwoChannelsUnsupported ==
    /\ (decoder.sample_rate # 0 /\ decoder.source.channels > 2) =>
          dnew.pc = "failed" /\ dnew.err = "unsupported_format"
    /\ dnew.pc = "ready" => decoder.input_channels <= 2
    /\ decoder.source.channels <= 2 =>
          dnew.err # "unsupported_format" /\ dlast.res # "unsupported_format"

\* construction failed on a 3-channel packet that followed a discarded one
C14_Witness ==
    /\ dnew.pc = "failed" /\ dnew.err = "unsupported_format"
    /\ decoder.source.channels = 3
    /\ decoder.reader > 2

C14_WitnessStereo ==
    /\ dnew.pc = "ready"
    /\ decoder.input_channels = 2
    /\ decoder.buf_len > 0

(***************************************************************************)
(* C15: when the demuxer rejects a seek, seek() makes one re-seek to the   *)
(* position held before the call; if that fallback succeeds seek() returns *)
(* the original error, never Ok, and if the fallback fails too seek()      *)
(* returns the fallback's error; on every path, success included, the      *)
(* codec is reset exactly once before seek() returns.                      *)
(***************************************************************************)
Rejects(millis) ==
    ~(decoder.source.seekable
        /\ RequiredTs(decoder, millis) <= LastTs(decoder))

C15_RejectedSeekFallsBack ==
    dlast.op = "seek" =>
        LET s == dlast.seek
        IN  /\ s.codec_resets = 1
            /\ ~Rejects(s.time) =>
                  dlast.res = "ok" /\ s.reader_seeks = 1 /\ s.err = None
            /\ Rejects(s.time) =>
                  /\ s.reader_seeks = 2
                  /\ dlast.res # "ok"
                  /\ ~Rejects(s.position) =>
                        /\ dlast.res = "seek_error"
                        /\ s.err = Some(s.time)
                        /\ decoder.seek_required_ts =
                              Some(RequiredTs(decoder, s.position))
                  /\ Rejects(s.position) =>
                        /\ dlast.res = "fallback_error"
                        /\ s.err = Some(s.position)

\* a rejected seek whose fallback to another position succeeded
C15_Witness ==
    /\ dlast.op = "seek" /\ dlast.res = "seek_error"
    /\ dlast.seek.time # dlast.seek.position
    /\ dlast.seek.position > 0

\* a rejected seek whose fallback to another position was rejected too
C15_WitnessFallbackFails ==
    /\ dlast.op = "seek" /\ dlast.res = "fallback_error"
    /\ dlast.seek.time # dlast.seek.position

(***************************************************************************)
(* C16: the stream error callback invokes on_configuration_changed exactly *)
(* once for each DeviceNotAvailable or StreamInvalidated error and not     *)
(* on_error; it invokes on_error exactly once for each BackendSpecific     *)
(* error and not on_configuration_changed; for InputOverflow and           *)
(* BufferUnderrun it invokes neither; it changes no AudioOutput or         *)
(* AudioManager state itself; and nothing else invokes the two callbacks.  *)
(***************************************************************************)
C16_ErrorCallbackClassifies ==
    [][LET err == dev'.err
           reset == IF err \in {"DeviceNotAvailable", "StreamInvalidated"}
                    THEN 1 ELSE 0
           failed == IF err = "BackendSpecific" THEN 1 ELSE 0
       IN  IF dev'.stream_errors # dev.stream_errors
           THEN /\ dev'.stream_errors = dev.stream_errors + 1
                /\ dev'.on_configuration_changed =
                      dev.on_configuration_changed + reset
                /\ dev'.on_error = dev.on_error + failed
                /\ dev'.live = dev.live
                /\ UNCHANGED <<output, wb, accepted, played, cb, next_id,
                               decVars, resVars, mgrVars>>
           ELSE /\ dev'.on_configuration_changed = dev.on_configuration_changed
                /\ dev'.on_error = dev.on_error]_vars

\* one error of each kind was delivered, the last one only logged
C16_Witness ==
    /\ dev.stream_errors = 3
    /\ dev.on_configuration_changed = 1
    /\ dev.on_error = 1
    /\ dev.err \in {"InputOverflow", "BufferUnderrun"}
    /\ Len(output.ring_buf) > 0

(***************************************************************************)
(* C17: start() on an AudioOutput whose stream is running opens no new     *)
(* stream and leaves the stream and the ring buffer untouched; after any   *)
(* sequence of start and stop calls at most one stream, so at most one     *)
(* data callback reading the ring buffer, exists per AudioOutput; after    *)
(* stop() the stream is None.                                              *)
(***************************************************************************)
C17_StartIsIdempotent ==
    /\ [](/\ dev.live <= 1
          /\ output.stream <=> dev.live = 1
          /\ dev.last = "stop" => ~output.stream /\ dev.live = 0)
    /\ [][(dev' # dev /\ dev'.last = "start_running") =>
            /\ output.stream
            /\ output' = output
            /\ dev'.live = dev.live]_vars

\* start() was called on a running stream with samples in the ring buffer
C17_Witness ==
    /\ dev.last = "start_running"
    /\ output.stream
    /\ Len(output.ring_buf) > 0

(***************************************************************************)
(* C18: under every interleaving of producer writes and callback reads,    *)
(* buffer_size() + buffer_space_available() = buffer_capacity() whenever   *)
(* no write or read is in progress, buffer_size() never exceeds            *)
(* buffer_capacity(), and buffer_capacity() stays                          *)
(* floor(200 * sample_rate / 1000) * channels as fixed at construction.    *)
(***************************************************************************)
C18_RingBufferAccounting ==
    /\ buffer_size(output) + buffer_space_available(output)
          = buffer_capacity(output)
    /\ buffer_size(output) <= buffer_capacity(output)
    /\ buffer_space_available(output) >= 0
    /\ buffer_capacity(output)
          = ((200 * output.config.sample_rate) \div 1000)
              * output.config.channels

\* the ring buffer is full after writes and a callback read
C18_Witness ==
    /\ buffer_size(output) = buffer_capacity(output)
    /\ buffer_capacity(output) > 0
    /\ Len(played) > 0

(***************************************************************************)
(* C19: reset(decoder, Force) called twice in immediate succession leaves  *)
(* the observable state (output config, stream running or not, resampler   *)
(* state, ring-buffer contents, the decoder's position in the source) as   *)
(* it was after the first call.                                            *)
(***************************************************************************)
C19_ForceResetIdempotent ==
    (mgr.pc = "ready" /\ mhist.forced >= 2) => Observable = mhist.snapshot

(***************************************************************************)
(* C20: when a manager operation fails with OutputStalled the manager      *)
(* tears down no state: the stream that ran before the call still runs,    *)
(* output, output_config and the resampler are unchanged, and after a      *)
(* failed write(decoder) decoder and resampler have not advanced, so       *)
(* current(decoder) still is the block whose write failed.                 *)
(***************************************************************************)
Stalled == mgr.pc = "failed" /\ mgr.err = "OutputStalled"

C20_StallTearsDownNothing ==
    Stalled =>
        /\ output.stream = mhist.pre.stream
        /\ output.config = mhist.pre.config
        /\ mgr.output_config = mhist.pre.output_config
        /\ resampled = mhist.pre.resampled
        /\ mhist.pre.op = "write" =>
              /\ decoder = mhist.pre.decoder
              /\ ResampledCurrent(resampled, decoder)
                    = mhist.pushed[Len(mhist.pushed)]

\* the part of C20 the code keeps: a write(decoder) that fails with
\* OutputStalled leaves stream, output config, resampler and decoder alone
C20_StalledWriteKeepsState ==
    (Stalled /\ mhist.pre.op = "write") =>
        /\ output.stream = mhist.pre.stream
        /\ mgr.output_config = mhist.pre.output_config
        /\ resampled = mhist.pre.resampled
        /\ decoder = mhist.pre.decoder
        /\ ResampledCurrent(resampled, decoder)
              = mhist.pushed[Len(mhist.pushed)]

(***************************************************************************)
(* C21: AudioManager::flush pushes what the resampler flushes with a       *)
(* blocking write, sleeps buffer_duration only when that write succeeded,  *)
(* stops the output in every case and returns the result of the write: no  *)
(* stream runs after flush returned, Ok or Err, and the output is stopped  *)
(* after a successful write_all.                                           *)
(***************************************************************************)
FlushReturns == mgr.pc = "flushing" /\ mgr'.pc # "flushing"

C21_FlushStopsInEveryCase ==
    /\ [][FlushReturns =>
            /\ wb.slice = ResampledFlush(mhist.pre.resampled).out
            /\ ~output'.stream
            /\ dev'.live = 0
            /\ wb.pc = "ok" =>
                  /\ WbEnqueued = wb.slice
                  /\ mhist'.slept = mhist.slept + DEFAULT_BUFFER_DURATION
                  /\ mgr'.pc # "failed"
            /\ wb.pc # "ok" =>
                  /\ mhist'.slept = mhist.slept
                  /\ mgr'.pc = "failed"
                  /\ mgr'.err = "OutputStalled"]_vars
    /\ []((mgr.pc = "idle" /\ mhist.flushed > 0) => ~output.stream)

\* a flush of a running stream failed with OutputStalled
C21_Witness ==
    /\ Stalled
    /\ mhist.pre.op = "flush"
    /\ mhist.pre.stream
    /\ ~output.stream

\* a write_all ended with a successful flush of a non-empty remainder
C21_WitnessWriteAll ==
    /\ mgr.pc = "idle"
    /\ mhist.flushed > 0
    /\ mhist.slept > 0
    /\ ~output.stream
    /\ Len(accepted) > 0

(***************************************************************************)
(* C22: after set_device(Some(name)) with the name of a device of the      *)
(* host, the next successful reset(decoder, mode), in either mode and for  *)
(* every combination of the configs of the two devices and of the          *)
(* decoder's sample rate, leaves the manager with an output opened on the  *)
(* named device and with the shared current-device name set to it;         *)
(* set_device alone changes neither the output nor the running stream.     *)
(***************************************************************************)
NamedDevice == SelectDevice(mgr.host, mgr.device_name).device.id

C22_SetDeviceTakesEffectOnReset ==
    (mgr.pc = "ready" /\ mhist.set_device = "reset") =>
        /\ output.device = NamedDevice
        /\ mgr.current_device = mgr.device_name

\* the parts of C22 the code keeps: set_device touches neither the output
\* nor the stream, and a forced reset opens the output on the named device
C22_SetDeviceAloneChangesNothing ==
    [][mgr'.device_name # mgr.device_name => output' = output /\ dev' = dev]_vars

C22_ForcedResetUsesNamedDevice ==
    (mgr.pc = "ready" /\ mhist.set_device = "reset" /\ mgr.mode = "Force") =>
        /\ output.device = NamedDevice
        /\ mgr.current_device = mgr.device_name

(***************************************************************************)
(* C23: find_closest_config fills each unspecified requested field from    *)
(* the selected device's default config and returns: the default config    *)
(* when channels, sample rate and sample format all equal the default's;   *)
(* otherwise the first supported range of that device whose channels and   *)
(* sample format equal the request and whose rate range contains the       *)
(* requested rate, with the rate set to the requested rate; otherwise the  *)
(* default config. The result's rate is the requested rate or the default  *)
(* rate, and configs of other devices are never used.                      *)
(***************************************************************************)
SelectedDevice ==
    CHOOSE d \in {bld.host.default_output_device[1]}
                     \cup {bld.host.output_devices[i] :
                              i \in 1..Len(bld.host.output_devices)} :
        d.id = bld.device

Filled(field) ==
    IF bld.config[field] = None THEN SelectedDevice.default_config[field]
    ELSE bld.config[field][1]

Fits(range) ==
    /\ range.channels = Filled("channels")
    /\ range.sample_format = Filled("sample_format")
    /\ range.min_sample_rate <= Filled("sample_rate")
    /\ Filled("sample_rate") <= range.max_sample_rate

C23_ClosestConfig ==
    (bld.op = "find_closest_config" /\ bld.res = "ok") =>
        LET device == SelectedDevice
            default_config == device.default_config
            same == \A field \in {"channels", "sample_rate", "sample_format"} :
                        Filled(field) = default_config[field]
            fitting == {i \in 1..Len(device.supported) :
                           Fits(device.supported[i])}
        IN  /\ same => bld.result = default_config
            /\ (~same /\ fitting # {}) =>
                  \E i \in fitting :
                      /\ \A j \in fitting : i <= j
                      /\ bld.result =
                            [channels |-> Filled("channels"),
                             sample_rate |-> Filled("sample_rate"),
                             sample_format |-> Filled("sample_format"),
                             buffer_size |-> device.supported[i].buffer_size]
            /\ (~same /\ fitting = {}) => bld.result = default_config
            /\ bld.result.sample_rate
                  \in {Filled("sample_rate"), default_config.sample_rate}
            /\ \/ bld.result = default_config
               \/ \E i \in 1..Len(device.supported) :
                      /\ bld.result.channels = device.supported[i].channels
                      /\ bld.result.buffer_size
                            = device.supported[i].buffer_size
                      /\ bld.result.sample_format
                            = device.supported[i].sample_format

\* a request with an unspecified sample format was answered with the first
\* of several fitting ranges of a named device
C23_Witness ==
    /\ bld.op = "find_closest_config"
    /\ bld.res = "ok"
    /\ bld.config.sample_format = None
    /\ bld.device = 2
    /\ bld.result # SelectedDevice.default_config
    /\ Cardinality({i \in 1..Len(SelectedDevice.supported) :
                       Fits(SelectedDevice.supported[i])}) > 1

\* no range fits a request that differs from the default: the default config
C23_WitnessDefault ==
    /\ bld.op = "find_closest_config"
    /\ bld.res = "ok"
    /\ bld.config.sample_rate = Some(40)
    /\ bld.result = SelectedDevice.default_config

(***************************************************************************)
(* C24: find_closest_config and new_output select the device the same      *)
(* way: without a device name the host's default output device; with a     *)
(* name the first output device whose trimmed name equals the trimmed      *)
(* requested name, and the default device when no device matches; both     *)
(* fail with NoDefaultDevice when the host has no default device, even if  *)
(* the named device exists.                                                *)
(***************************************************************************)
Named(i) ==
    /\ bld.device_name # None
    /\ Trim(bld.host.output_devices[i].name) = Trim(bld.device_name[1])

C24_DeviceSelection ==
    bld.op \in {"find_closest_config", "new_output"} =>
        IF bld.host.default_output_device = None
        THEN bld.res = "NoDefaultDevice"
        ELSE /\ bld.res = "ok"
             /\ \A i \in 1..Len(bld.host.output_devices) :
                   (Named(i) /\ \A j \in 1..(i - 1) : ~Named(j)) =>
                       bld.device = bld.host.output_devices[i].id
             /\ (\A i \in 1..Len(bld.host.output_devices) : ~Named(i)) =>
                   bld.device = bld.host.default_output_device[1].id

\* new_output took the first of two devices of the trimmed name, which is
\* not the default device
C24_Witness ==
    /\ bld.op = "new_output"
    /\ bld.res = "ok"
    /\ bld.device # bld.host.default_output_device[1].id
    /\ Cardinality({i \in 1..Len(bld.host.output_devices) : Named(i)}) > 1
    /\ bld.device_name[1] # Trim(bld.device_name[1])

\* a host without a default device refused the name of a device it has
C24_WitnessNoDefault ==
    /\ bld.op = "find_closest_config"
    /\ bld.res = "NoDefaultDevice"
    /\ \E i \in 1..Len(bld.host.output_devices) : Named(i)

(***************************************************************************)
(* C25: for a stereo source mixed to a mono output each emitted sample     *)
(* equals (L + R) / 2 x volume for every pair L, R in the range of the     *)
(* sample type, and buf_len is half the count of input samples; for an     *)
(* integer sample type the sum L + R stays within the width of the type:   *)
(* no overflow, no wrap-around.                                            *)
(***************************************************************************)
MixedFrom(samples) ==
    [i \in 1..(Len(samples) \div 2) |->
        MulAmp(MulAmp(samples[2 * i - 1] + samples[2 * i], VolumeDen \div 2),
               decoder.volume)]

C25_StereoToMonoAverages ==
    dlast.op = "process_output" =>
        LET samples == decoder.source.packets[1].samples
        IN  /\ dlast.res = "ok"
            /\ decoder.buf_len = Len(samples) \div 2
            /\ DecoderCurrent(decoder) = MixedFrom(samples)
            /\ \A i \in 1..(Len(samples) \div 2) :
                  /\ samples[2 * i - 1] + samples[2 * i] >= SampleMin
                  /\ samples[2 * i - 1] + samples[2 * i] <= SampleMax

\* the part of C25 the code keeps: the average times the volume, and half
\* the length, for the pairs whose sum is in the range of the sample type
C25_AveragesWhereSumFits ==
    LET samples == decoder.source.packets[1].samples
    IN  (/\ dlast.op = "process_output"
         /\ samples[1] + samples[2] >= SampleMin
         /\ samples[1] + samples[2] <= SampleMax) =>
            /\ dlast.res = "ok"
            /\ decoder.buf_len = Len(samples) \div 2
            /\ DecoderCurrent(decoder) = MixedFrom(samples)

(***************************************************************************)
(* C26: Decoder construction with leading-silence trimming terminates for  *)
(* every finite source: when no block holds a non-silent sample,           *)
(* initialize stops once next() reports the end of the stream and does     *)
(* not repeat forever.                                                     *)
(***************************************************************************)
C26_InitializeTerminates == <>(dnew.pc \notin {"seek", "init"})

\* the part of C26 the code keeps: construction ends when the source holds
\* a non-silent sample, and when silence is preserved
AllSilent ==
    \A i \in 1..Len(decoder.source.packets) :
        \A k \in 1..Len(decoder.source.packets[i].samples) :
            decoder.source.packets[i].samples[k] = MID

C26_TerminatesUnlessAllSilent ==
    (dnew.opt = "PreserveSilence" \/ ~AllSilent) =>
        <>(dnew.pc \notin {"seek", "init"})

(***************************************************************************)
(* C27: when the demuxer accepts a seek, seek() sets the decoder's         *)
(* timestamp to the seek target before it returns, so that                 *)
(* current_position() called after the seek and before the next next()     *)
(* reports the seek target and not the position of the last decoded        *)
(* packet.                                                                 *)
(***************************************************************************)
C27_SeekSetsTimestamp ==
    (dlast.op = "seek" /\ dlast.res = "ok") =>
        /\ decoder.timestamp = RequiredTs(decoder, dlast.seek.time)
        /\ PositionMillis(decoder) = dlast.seek.time

\* what the code does: an accepted seek leaves the timestamp, and with it
\* current_position(), where the last decoded packet put it
C27_SeekKeepsTimestamp ==
    dlast.op = "seek" =>
        /\ decoder.timestamp = dlast.pre.timestamp
        /\ PositionMillis(decoder) = dlast.seek.position

(***************************************************************************)
(* C28: an initialize call that allocates or reallocates the resampler has *)
(* performed one decode_next_frame before it returns, so that the first    *)
(* current(decoder) the consumer reads is a block resampled from the       *)
(* decoder's samples: the input buffer holds the samples of that decode    *)
(* (unless the decoder has no samples to give).                            *)
(***************************************************************************)
Allocates ==
    /\ rhist'.op = "initialize"
    /\ rhist'.inits = rhist.inits + 1
    /\ resampled'.state = "Resampled"
    /\ resampled.state = "Native"
         \/ resampled'.in_sample_rate # resampled.in_sample_rate

C28_InitializeDecodesFirstBlock ==
    [][Allocates =>
         \/ resampled'.inner.position > 0
         \/ Len(DecoderCurrent(decoder)) = 0]_vars

\* C28, as the code has it: the initialize that allocates the resampler
\* decodes nothing; the decoder is left where it was, the input buffer is
\* empty and current(decoder) is the output buffer filled with T::MID
C28_InitializeLeavesSilence ==
    [][Allocates =>
         /\ decoder' = decoder
         /\ resampled'.inner.position = 0
         /\ ResampledCurrent(resampled', decoder')
              = Fill(resampled'.inner.frames_out * resampled'.channels, MID)
         /\ Len(DecoderCurrent(decoder)) > 0]_vars

(***************************************************************************)
(* C29: when decode_next_frame in the Resampled state returns Unfinished,  *)
(* the input buffer has been reset before it returns: its position is 0.   *)
(***************************************************************************)
ReturnedUnfinished ==
    /\ rhist.op = "decode_next_frame"
    /\ rhist.res = "unfinished"
    /\ resampled.state = "Resampled"

C29_UnfinishedResetsInput ==
    ReturnedUnfinished => resampled.inner.position = 0

\* C29, the consequence: a flush issued before the next decode_next_frame
\* returns an empty slice
C29_FlushAfterUnfinishedIsEmpty ==
    [][ReturnedUnfinished /\ rhist'.op = "flush" =>
         rhist'.out = <<>> /\ rhist'.n_out = 0]_vars

\* C29, as the code has it: next resets the input buffer when it starts, so
\* it returns Unfinished with the input buffer full of the chunk it has
\* just resampled
C29_UnfinishedLeavesInputFull ==
    ReturnedUnfinished =>
        resampled.inner.position
            = resampled.inner.frames_in * resampled.inner.channels

\* C29, as the code has it: the flush after Unfinished runs the resampler
\* over the full input buffer again and returns a whole output chunk
C29_FlushAfterUnfinishedIsAChunk ==
    [][ReturnedUnfinished /\ rhist'.op = "flush" =>
         /\ rhist'.position
              = resampled.inner.frames_in * resampled.inner.channels
         /\ rhist'.n_out = resampled.inner.frames_out
         /\ Len(rhist'.out) > 0]_vars

(***************************************************************************)
(* C30: flush() on a partially filled input buffer passes the resampler a  *)
(* partial length equal to the number of valid frames in the input buffer, *)
(* partial_len = position / channels, for every position in 1..capacity.   *)
(***************************************************************************)
FlushedInput ==
    /\ rhist.op = "flush"
    /\ resampled.state = "Resampled"
    /\ rhist.position \in 1..Len(resampled.inner.in_buf)

C30_PartialLenIsValidFrames ==
    FlushedInput =>
        PartialLen(resampled.inner.frames_in, rhist.position,
                   resampled.inner.channels)
            = rhist.position \div resampled.inner.channels

\* C30, the same for the input buffers that are not full
C30_PartialLenOfPartialInput ==
    FlushedInput /\ rhist.position < Len(resampled.inner.in_buf) =>
        PartialLen(resampled.inner.frames_in, rhist.position,
                   resampled.inner.channels)
            = rhist.position \div resampled.inner.channels

\* C30, as the code has it: the partial length is the number of frames the
\* input buffer still has room for
C30_PartialLenIsFreeFrames ==
    FlushedInput =>
        PartialLen(resampled.inner.frames_in, rhist.position,
                   resampled.inner.channels)
            = resampled.inner.frames_in
                - (rhist.position \div resampled.inner.channels)

(***************************************************************************)
(* C31: during the prefill of reset no output stream is running and the    *)
(* ring buffer never exceeds its capacity; each prefill iteration enqueues *)
(* one whole block, the non-blocking write never failing; the prefill ends *)
(* exactly when the decoder reports Finished or the current block is       *)
(* larger than the free space; and only after that is the stream started.  *)
(***************************************************************************)
PrefillBlock == ResampledCurrent(resampled, decoder)

PrefillEnds ==
    \/ ~PrefillFits(PrefillBlock, output)
    \/ DecodeNextFrame(resampled, decoder).res = "finished"

PrefillRound ==
    /\ mgr.pc = "prefill" => mgr'.pc \in {"prefill", "start"}
    /\ mgr.pc = "prefill" /\ PrefillFits(PrefillBlock, output) =>
         /\ ~RbWriteFull(output, PrefillBlock)
         /\ output'.ring_buf = output.ring_buf \o PrefillBlock
         /\ accepted' = accepted \o PrefillBlock
    /\ mgr.pc = "prefill" /\ ~PrefillFits(PrefillBlock, output) =>
         output'.ring_buf = output.ring_buf
    /\ mgr.pc = "prefill" => (mgr'.pc = "start" <=> PrefillEnds)
    /\ mgr.pc = "prefill" => ~output'.stream
    /\ mgr'.pc = "start" => mgr.pc = "prefill"

C31_PrefillWholeBlocksThenStart ==
    /\ [](mgr.pc \in {"prefill", "start"} =>
            ~output.stream /\ Len(output.ring_buf) <= output.cap)
    /\ [][PrefillRound]_vars

\* C31: a reset has prefilled two blocks, the second of which ended the
\* prefill, and has started the stream over them
C31_Witness ==
    /\ mgr.pc = "ready"
    /\ mhist.steps # <<>>
    /\ mhist.steps[Len(mhist.steps)] = "start"
    /\ Len(mhist.pushed) >= 2
    /\ Len(mhist.pushed[1]) > 0
    /\ output.stream
    /\ output.ring_buf = mhist.pushed[1] \o mhist.pushed[2]

\* C31: the prefill ended because the next block did not fit
C31_WitnessNoSpace ==
    /\ mgr.pc = "start"
    /\ ~PrefillFits(PrefillBlock, output)
    /\ Len(output.ring_buf) > 0

(***************************************************************************)
(* C32: a reset in Default mode that finds neither the resolved output     *)
(* config nor the input sample rate different from the current ones does   *)
(* not rebuild the output or the ResampledDecoder, does not flush, sleep or *)
(* stop the stream and leaves the ring buffer as it is; it only initializes *)
(* the resampler against the decoder and makes sure the stream is started.  *)
(***************************************************************************)
ResetFindsNoChange ==
    /\ mgr.pc = "reset"
    /\ mgr.mode = "Default"
    /\ FindClosestConfig(mgr.host, mgr.device_name,
           Requested(Some(decoder.sample_rate),
                     Some(mgr.output_config.channels), Some(FORMAT))).config
         = mgr.output_config
    /\ resampled.in_sample_rate = decoder.sample_rate

\* C32, at the step the manager's thread takes out of ResetFindsNoChange:
\* the reset returns at once, having changed nothing but the resampler's
\* initialization and the stream it makes sure is started
C32_ResetWithNoChange ==
    [][ResetFindsNoChange /\ mgr' # mgr =>
         /\ mgr'.pc = "ready"
         /\ mgr'.output_config = mgr.output_config
         /\ output' = [output EXCEPT !.stream = TRUE]
         /\ resampled' = ResampledInitialize(resampled, decoder.sample_rate)
         /\ resampled'.state = resampled.state
         /\ resampled'.out_sample_rate = resampled.out_sample_rate
         /\ resampled'.channels = resampled.channels
         /\ mhist'.steps = mhist.steps
         /\ mhist'.rebuilt = mhist.rebuilt
         /\ mhist'.flushed = mhist.flushed
         /\ mhist'.slept = mhist.slept
         /\ dev'.live = (IF output.stream THEN dev.live ELSE dev.live + 1)
         /\ UNCHANGED <<accepted, played, wb, decoder>>]_vars

\* C32: the reset for the second source returned at once, over a stream
\* that was playing and a ring buffer that held samples of the first source
C32_Witness ==
    /\ mgr.pc = "ready"
    /\ mgr.cur = 2
    /\ mhist.steps = <<>>
    /\ mhist.produced # <<>>
    /\ mhist.pushed = <<>>
    /\ output.stream
    /\ Len(output.ring_buf) > 0
    /\ mhist.slept = 0

(***************************************************************************)
(* C33: the watchdog thread invokes on_configuration_changed only at a     *)
(* poll at which it read no pinned device (current_device None) and finds  *)
(* the name of the default device different from the name it observed      *)
(* before; having invoked it, it holds the new name, so that a change of   *)
(* the default device is notified once and not again at the polls that     *)
(* follow, however new_output pins and unpins a device in between.         *)
(***************************************************************************)
Notified == dev'.on_configuration_changed # dev.on_configuration_changed

Compared == bld.watchdog.pc = "unpinned" /\ bld'.watchdog.pc = "poll"

DefaultDiffers ==
    DefaultDeviceName(bld.host) # bld.watchdog.current_default_device

WatchdogStep ==
    /\ Notified =>
         /\ Compared
         /\ DefaultDiffers
         /\ dev'.on_configuration_changed = dev.on_configuration_changed + 1
    /\ Compared =>
         /\ Notified <=> DefaultDiffers
         /\ bld'.watchdog.current_default_device = DefaultDeviceName(bld.host)
         /\ ~DefaultDiffers'
    /\ bld.watchdog.pc = "poll" /\ bld'.watchdog.pc = "unpinned" =>
         bld.current_device = None
    /\ bld.watchdog.pc = "poll" /\ bld'.watchdog.pc = "pinned" =>
         bld.current_device # None
    /\ bld'.watchdog.current_default_device
         # bld.watchdog.current_default_device =>
         bld.watchdog.pc = "spawned" \/ Notified

C33_WatchdogNotifiesOncePerChange ==
    /\ [][WatchdogStep]_vars
    /\ [](dev.on_configuration_changed <= bld.watchdog.changes)

\* C33: the default device changed once and new_output was last called
\* with no device name; the watchdog has notified the change once, and at
\* a later poll with no device pinned it holds the name of the new default
C33_Witness ==
    /\ bld.watchdog.changes = 1
    /\ dev.on_configuration_changed = 1
    /\ bld.op = "new_output"
    /\ bld.current_device = None
    /\ bld.watchdog.pc = "unpinned"
    /\ bld.watchdog.current_default_device = DefaultDeviceName(bld.host)

\* C33: the notification of a change has been delivered after new_output
\* pinned a device, by the poll that had read None before
C33_WitnessPinnedMeanwhile ==
    /\ bld.watchdog.changes = 1
    /\ dev.on_configuration_changed = 1
    /\ bld.current_device # None
    /\ bld.watchdog.pc = "poll"

(***************************************************************************)
(* C34: for a Decoder with output_channels = 2 over a source of whole      *)
(* frames, buf_len is even after construction and after every successful   *)
(* next(), buf_len never exceeds the length of buf, and the number of      *)
(* leading samples discarded by silence trimming is even.                  *)
(***************************************************************************)
C34_StereoBufLenEven ==
    decoder.output_channels = 2 /\ dnew.pc = "ready" =>
        /\ decoder.buf_len % 2 = 0
        /\ decoder.buf_len <= Len(decoder.buf)
        /\ dnew.samples_skipped % 2 = 0

\* C34: the first non-silent sample of a stereo output was a right-channel
\* sample; the two samples before its frame were discarded, the frame was
\* kept whole, and a later next() has returned a block
C34_Witness ==
    /\ decoder.output_channels = 2
    /\ dnew.pc = "ready"
    /\ dnew.opt = "TrimSilence"
    /\ dnew.samples_skipped = 2
    /\ dlast.op = "next"
    /\ dlast.res = "some"
    /\ Len(dlast.pre.current) = 2
    /\ dlast.pre.current[1] = MID
    /\ dlast.pre.current[2] # MID
    /\ decoder.buf_len > 0

(***************************************************************************)
(* C35: in the Resampled state, over an uninterrupted sequence of          *)
(* decode_next_frame calls ended by flush, the samples copied into the     *)
(* resampler input buffer, concatenated over all passes, are the decoder's *)
(* blocks from the block current at initialize onward, in order, none      *)
(* skipped and none copied twice, wherever the block boundaries fall in    *)
(* the chunks; frame_position never exceeds the length of the current      *)
(* block and the input position never exceeds the input buffer's capacity. *)
(***************************************************************************)
InputCapacity == resampled.inner.frames_in * resampled.inner.channels

C35_InputIsTheDecodedStream ==
    resampled.state = "Resampled" /\ rhist.inits > 0 =>
        /\ rhist.res # "panicked"
        /\ IsPrefix(rhist.fed, DecodedStream(decoder))
        /\ rhist.res = "finished" => rhist.fed = DecodedStream(decoder)
        /\ rhist.res = "unfinished" => Len(rhist.fed) % InputCapacity = 0
        /\ resampled.inner.frame_position <= Len(DecoderCurrent(decoder))
        /\ resampled.inner.position <= InputCapacity
        /\ Len(resampled.inner.in_buf) = InputCapacity
        /\ resampled.inner.position <= Len(rhist.fed)
        /\ Take(resampled.inner.in_buf, resampled.inner.position)
             = Drop(rhist.fed, Len(rhist.fed) - resampled.inner.position)

\* C35: a source of two blocks of two frames went through input chunks of
\* three frames, the second block falling across the chunk boundary, and
\* the flush found the last frame in the input buffer
C35_Witness ==
    /\ resampled.state = "Resampled"
    /\ rhist.op = "flush"
    /\ resampled.inner.frames_in = 3
    /\ Len(decoder.source.packets) = 2
    /\ Len(rhist.fed) = 4 * resampled.inner.channels
    /\ rhist.fed = DecodedStream(decoder)
    /\ rhist.position = resampled.inner.channels

(***************************************************************************)
(* C36: at every return from AudioManager::new, reset and reset_output,    *)
(* Ok or Err, the manager's output_config is the config its current       *)
(* AudioOutput was built with, and the ResampledDecoder's output sample    *)
(* rate and channel count are those of output_config.                      *)
(***************************************************************************)
ManagerReturned == mgr.pc \in {"idle", "ready", "failed"} /\ wb.pc = "idle"

C36_ConfigOutputResamplerAgree ==
    ManagerReturned =>
        /\ mgr.output_config = output.config
        /\ resampled.out_sample_rate = mgr.output_config.sample_rate
        /\ resampled.channels = mgr.output_config.channels

\* C36, the part that holds: the output is always the one built with the
\* recorded config
C36_OutputBuiltWithConfig ==
    ManagerReturned => mgr.output_config = output.config

\* C36, as the code has it: what reset_output leaves untouched is the
\* ResampledDecoder
C36_ResetOutputKeepsResampler ==
    [][mgr.pc = "ready" /\ mgr'.pc = "ready"
         /\ mhist'.steps = <<"reset_output">> /\ mhist' # mhist =>
            resampled' = resampled /\ mgr'.output_config = output'.config]_vars

(***************************************************************************)
(* C37: in initialize with silence trimming, when the first non-silent     *)
(* sample is found at index i, i is less than buf_len, the retained suffix *)
(* copied to the front of buf has exactly buf_len - i samples, and the     *)
(* copy never fails, for every sequence of preceding all-silent blocks of  *)
(* any lengths.                                                            *)
(***************************************************************************)
C37_TrimCopyNeverFails ==
    dnew.opt = "TrimSilence" => dnew.pc # "panicked"

\* C37, as the code has it: the suffix is taken from the whole of buf, so
\* the copy fails only when buf is longer than the block in it, which is
\* when a longer all-silent block came before; the index itself is inside
\* the block
C37_CopyFailsAfterLongerBlock ==
    dnew.pc = "panicked" =>
        /\ Len(decoder.buf) > decoder.buf_len
        /\ PairIndex(FirstNonSilent(decoder.buf), decoder.output_channels)
             < decoder.buf_len
        /\ dnew.samples_skipped >= Len(decoder.buf)

(***************************************************************************)
(* C38: silence trimming is independent of the volume: for any volume,     *)
(* 0 included, construction skips the same number of samples as with the   *)
(* volume 1, every sample of the resulting current() has been multiplied   *)
(* by the requested volume exactly once, and volume() is the requested     *)
(* volume when construction has returned Ok.                               *)
(***************************************************************************)
\* Decoder::initialize(TrimSilence) of a Decoder with the volume 1, run to
\* its end over at most fuel blocks
RECURSIVE InitializeAtIdentity(_, _, _)
InitializeAtIdentity(d, skipped, fuel) ==
    Only({IF r.pc = "init" /\ fuel > 0
          THEN InitializeAtIdentity(r.d, r.skipped, fuel - 1)
          ELSE r :
            r \in {InitializePass(d, "TrimSilence", IDENTITY, skipped)}})

Scaled(samples, volume) ==
    [i \in 1..Len(samples) |-> MulAmp(samples[i], volume)]

C38_TrimIndependentOfVolume ==
    dnew.pc = "ready" /\ dnew.opt = "TrimSilence" /\ dlast.op = "none" =>
        \E unit \in {InitializeAtIdentity(
                         NewDecoder(decoder.source, IDENTITY,
                                    decoder.output_channels),
                         0, MaxPackets)} :
            /\ unit.pc = "ready"
            /\ dnew.samples_skipped = unit.skipped
            /\ DecoderCurrent(decoder)
                 = Scaled(DecoderCurrent(unit.d), dnew.volume)
            /\ decoder.volume = dnew.volume
            /\ decoder.reader = unit.d.reader

\* C38: a Decoder was constructed with the volume 0 over a source that
\* starts with a silent frame: the silence was skipped and the block that
\* follows is kept, every sample of it 0
C38_Witness ==
    /\ dnew.pc = "ready"
    /\ dnew.opt = "TrimSilence"
    /\ dlast.op = "none"
    /\ dnew.volume = 0
    /\ decoder.volume = 0
    /\ dnew.samples_skipped > 0
    /\ decoder.buf_len > 0
    /\ \A i \in 1..decoder.buf_len : decoder.buf[i] = MID

\* C38: the same with half the volume
C38_WitnessHalf ==
    /\ dnew.pc = "ready"
    /\ dnew.opt = "TrimSilence"
    /\ dlast.op = "none"
    /\ dnew.volume = 1
    /\ dnew.samples_skipped > 0
    /\ decoder.buf_len > 0
    /\ \E i \in 1..decoder.buf_len : decoder.buf[i] # MID

(***************************************************************************)
(* C39: when Manager.write fails with OutputStalled and the caller calls   *)
(* write again with the same decoder, once or several times, then once a   *)
(* write succeeds every sample of the current block has been enqueued in   *)
(* the ring buffer exactly once: a prefix enqueued by a stalled attempt is *)
(* not enqueued again.                                                     *)
(***************************************************************************)
WriteSucceeds == mgr.pc = "writing" /\ wb.pc = "ok"

C39_RetriedWriteEnqueuesOnce ==
    WriteSucceeds => Drop(accepted, mhist.first_base) = wb.slice

\* C39, as the code has it: every attempt hands the whole of current() to
\* write_blocking, so the attempt that succeeds enqueues the whole block
\* after whatever the stalled attempts enqueued of it
C39_EveryAttemptEnqueuesTheBlock ==
    WriteSucceeds =>
        /\ Drop(accepted, wb.base) = wb.slice
        /\ wb.base >= mhist.first_base
        /\ mhist.retries = 0 => wb.base = mhist.first_base
        /\ \A i \in (mhist.first_base + 1)..wb.base :
               \E j \in 1..Len(wb.slice) : accepted[i] = wb.slice[j]

\* C40: every call to decode_next_frame in the Resampled state terminates,
\* with Unfinished, Finished or an error, for a paused decoder and for an
\* empty current block too: the fill loop never spins without end
C40_DecodeNextFrameTerminates ==
    rhist.op = "decode_next_frame" /\ resampled.state = "Resampled" =>
        rhist.res # "diverges"

\* a fill loop spins without end only when decode_next_frame is called in
\* the Resampled state over a paused decoder whose current block is empty:
\* next() hands out the same empty block again and again, and the input
\* chunk, which has room left, never fills
FillLoopSpins == rhist.res # "diverges" /\ rhist'.res = "diverges"

C40_SpinsOnlyOnPausedEmptyBlock ==
    [][FillLoopSpins =>
           /\ rhist'.op = "decode_next_frame"
           /\ resampled.state = "Resampled"
           /\ decoder.paused
           /\ DecoderCurrent(decoder) = <<>>
           /\ DecoderCurrent(decoder') = <<>>
           /\ resampled'.inner.frame_position = 0
           /\ resampled'.inner.position
                  < resampled.inner.frames_in * resampled.inner.channels]_vars

\* a call over a decoder that is not paused, or whose current block holds a
\* sample, terminates
C40_OtherCallsTerminate ==
    [][/\ rhist'.op = "decode_next_frame"
       /\ rhist' # rhist
       /\ ~decoder.paused \/ DecoderCurrent(decoder) # <<>>
       => rhist'.res # "diverges"]_vars
====
